---- MODULE Spec2Model ----
(***************************************************************************)
(* Model of the per-device message pipeline of krkeegan/insteon            *)
(* (src/insteon/insteon_device.py, class Insteon_Device).                  *)
(*                                                                         *)
(* One Insteon_Device and its modem (PLM).  A handler of the Python code   *)
(* is an operator from a device-state record `s` to the device-state       *)
(* record it leaves behind; an action reads the variables into such a      *)
(* record (Cur), applies the handler and writes the result back (Commit).  *)
(* Times are integers in milliseconds (the code uses float seconds).       *)
(* Bytes are integers 0..255; Python's None for a byte is NONE.            *)
(***************************************************************************)
EXTENDS Integers, Sequences, FiniteSets, TLC

VARIABLES
    attributes,       \* Root_Insteon attribute map: engine_version, dev_cat, ...
    hop_array,        \* attribute 'hop_array' (None is the empty sequence)
    last_sent_msg,    \* the frame last handed to the modem, or NoMsg
    last_rcvd_msg,    \* the frame last given to msg_rcvd, or NoFrame
    recent_inc_msgs,  \* dedup cache: search key -> expiry time
    device_msg_queue, \* outgoing queue: state-machine label -> frames
    state_machine,    \* the state-machine label the device is in
    aldb,             \* ALDB records: key -> 8 byte body
    wait_to_send,     \* the modem's wait_to_send, as the time sending resumes
    plm_msg_queue,    \* the modem's own outgoing queue
    plm_pending_ack,  \* the modem holds last_sent_msg and has yet to echo it
    out_history,      \* command name -> the frame of that command last sent
    printed,          \* the lines the last operation printed
    raised,           \* the exception that left the last handler, or "none"
    now,              \* time.time()
    n_rcvd,           \* number of frames given to msg_rcvd so far
    triggers,         \* the trigger registry, oldest first
    sequence,         \* the fields of the sequence objects of this device
    device_mem,       \* the physical device: address pointer and link table
    search            \* one schema level, an attribute and the branch selected

vars == <<attributes, hop_array, last_sent_msg, last_rcvd_msg, recent_inc_msgs,
          device_msg_queue, state_machine, aldb, wait_to_send, plm_msg_queue,
          plm_pending_ack, out_history, printed, raised, now, n_rcvd,
          triggers, sequence, device_mem, search>>

---------------------------------------------------------------------------
(* Bounds of the model *)

\* frames given to msg_rcvd in one run of each specification
MaxRcvd == 3
MaxRcvdHops == 3
MaxRcvdDedup == 3
MaxRcvdFresh == 4
MaxRcvdNack == 3
MaxRcvdLegacy == 2
MaxRcvdWait == 3
MaxRcvdCleanup == 2
MaxRcvdUnknown == 2
MaxRcvdExt == 2
MaxRcvdVersion == 3
MaxRcvdScan == 300
MaxRcvdWrite == 40
MaxTimeWrite == 200
MaxTimeScan == 1500
\* the clock stops after MaxTime milliseconds
MaxTime == 1000
MaxTimeFresh == 2000
\* frames held by one label's outgoing queue
MaxQueue == 2

---------------------------------------------------------------------------
(* Values *)

\* Python's None where a byte is expected
NONE == -1

AttrNames == {"engine_version", "dev_cat", "sub_cat", "firmware",
              "status", "aldb_delta"}

\* state-machine labels; "" is the default label
Labels == {"", "set_aldb_delta", "link plm->device", "query_aldb"}

\* last_sent_msg = None
NoMsg == [name |-> "None", cmd_1 |-> NONE, cmd_2 |-> NONE,
          usr_3 |-> NONE, usr_4 |-> NONE, msb_slot |-> "", lsb_slot |-> "",
          group_slot |-> "", msg_length |-> "standard", state_machine |-> "",
          plm_ack |-> FALSE, device_ack |-> FALSE, is_last_sent |-> FALSE]

\* last_rcvd_msg = None
NoFrame == [message_type |-> "None", msg_length |-> "standard",
            cmd_1 |-> NONE, cmd_2 |-> NONE, max_hops |-> 0, hops_left |-> 0,
            to_addr |-> <<0, 0, 0>>, usr |-> <<>>, raw_8 |-> 0]

\* the high nibble of the flags byte of an inbound frame
TypeNibble(message_type, msg_length) ==
    LET t == CASE message_type = "direct" -> 0
               [] message_type = "direct_ack" -> 2
               [] message_type = "alllink_cleanup_ack" -> 6
               [] message_type = "broadcast" -> 8
               [] message_type = "direct_nack" -> 10
               [] OTHER -> 14
    IN  t + (IF msg_length = "extended" THEN 1 ELSE 0)

\* an inbound frame as the parser hands it to msg_rcvd: the parsed fields
\* (usr: usr_1..usr_14 of an extended frame, <<>> of a standard one) and
\* byte 8 of the raw buffer (flags: type nibble, hops_left, max_hops)
Frame(message_type, msg_length, cmd_1, cmd_2, max_hops, hops_left, to_addr, usr) ==
    [message_type |-> message_type, msg_length |-> msg_length,
     cmd_1 |-> cmd_1, cmd_2 |-> cmd_2,
     max_hops |-> max_hops, hops_left |-> hops_left, to_addr |-> to_addr,
     usr |-> usr,
     raw_8 |-> TypeNibble(message_type, msg_length) * 16
               + hops_left * 4 + max_hops]

\* the device's own address (dev_addr_hi, dev_addr_mid, dev_addr_low) and the
\* modem's, as they appear in a frame
DevAddr == <<17, 34, 51>>
PlmAddr == <<1, 2, 3>>

\* standard acks and nacks sent to the modem
StdAck(cmd_1, cmd_2, hops_left) ==
    Frame("direct_ack", "standard", cmd_1, cmd_2, 3, hops_left, PlmAddr, <<>>)
StdNack(cmd_1, cmd_2, hops_left) ==
    Frame("direct_nack", "standard", cmd_1, cmd_2, 3, hops_left, PlmAddr, <<>>)

Max(a, b) == IF a >= b THEN a ELSE b

---------------------------------------------------------------------------
(* Message schema: COMMAND_SCHEMA, STD_DIRECT_ACK_SCHEMA *)

\* one branch of a schema level: its criterion is a tuple of values or 'all'
Branch(kind, vals, value) == [kind |-> kind, vals |-> vals, value |-> value]
CatchAll(value) == <<Branch("all", {}, value)>>

\* a command template: default bytes, length class, and the slot each named
\* alias ('msb', 'lsb', 'group') stands for
Template(cmd_1, cmd_2, msg_length, msb_slot, lsb_slot) ==
    [cmd_1 |-> cmd_1, cmd_2 |-> cmd_2, msg_length |-> msg_length,
     msb_slot |-> msb_slot, lsb_slot |-> lsb_slot, group_slot |-> ""]

\* a template whose cmd_2 is named 'group'
GroupTemplate(cmd_1, cmd_2, msg_length) ==
    [Template(cmd_1, cmd_2, msg_length, "", "") EXCEPT !.group_slot = "cmd_2"]

\* the device categories whose devices switch a load (dimmers and switches)
LoadDevCats == {1, 2}

CommandNames == {"get_engine_version", "id_request", "light_status_request",
                 "enter_link_mode", "set_address_msb", "read_aldb",
                 "peek_one_byte", "poke_one_byte", "on", "cleanup_on"}

\* the outgoing command table: name -> DevCat -> SubCat -> Firmware -> template
\* 'on' and 'cleanup_on' are commands of the load-switching categories only
COMMAND_SCHEMA ==
    [name \in CommandNames |->
        IF name \in {"on", "cleanup_on"}
        THEN <<Branch("tuple", LoadDevCats,
                   CatchAll(CatchAll(
                       IF name = "on" THEN Template(17, 255, "standard", "", "")
                       ELSE GroupTemplate(17, 0, "standard"))))>>
        ELSE CatchAll(CatchAll(CatchAll(
            CASE name = "get_engine_version" -> Template(13, 0, "standard", "", "")
              [] name = "id_request" -> Template(16, 0, "standard", "", "")
              [] name = "light_status_request" -> Template(25, 0, "standard", "", "")
              [] name = "enter_link_mode" -> Template(9, 0, "standard", "", "")
              [] name = "set_address_msb" -> Template(40, 0, "standard", "cmd_2", "")
              [] name = "peek_one_byte" -> Template(43, 0, "standard", "", "cmd_2")
              [] name = "poke_one_byte" -> Template(41, 0, "standard", "", "cmd_2")
              [] name = "read_aldb" -> Template(47, 0, "extended", "usr_3", "usr_4"))))]

\* the ack dispatch table: cmd_1 -> DevCat -> SubCat -> Firmware -> Cmd2 -> handler
STD_DIRECT_ACK_SCHEMA ==
    [cmd_1 \in {13, 40, 43} |->
        CatchAll(CatchAll(CatchAll(CatchAll(
            CASE cmd_1 = 13 -> "_set_engine_version"
              [] cmd_1 = 40 -> "ack_set_msb"
              [] cmd_1 = 43 -> "ack_peek_aldb"))))]

\* the extended direct dispatch table, keyed like STD_DIRECT_ACK_SCHEMA
EXT_DIRECT_SCHEMA ==
    [cmd_1 \in {47} |-> CatchAll(CatchAll(CatchAll(CatchAll("_ext_aldb_rcvd"))))]

\* the loop of _recursive_search_cmd; '' is <<>>, a found value v is <<v>>
RECURSIVE search_loop(_, _, _, _)
search_loop(command, value, unique_cmd, catch_all_cmd) ==
    IF command = <<>> THEN <<unique_cmd, catch_all_cmd>>
    ELSE LET command_item == Head(command)
         IN  search_loop(Tail(command), value,
                 IF command_item.kind = "tuple" /\ value \in command_item.vals
                 THEN <<command_item.value>> ELSE unique_cmd,
                 IF command_item.kind = "all"
                 THEN <<command_item.value>> ELSE catch_all_cmd)

\* faulty variant of _recursive_search_cmd: the catch-all is looked at first
_recursive_search_cmd_all_first(command, value) ==
    LET r == search_loop(command, value, <<>>, <<>>)
    IN  IF r[2] # <<>> THEN r[2]
        ELSE IF r[1] # <<>> THEN r[1]
        ELSE <<>>
\* _recursive_search_cmd: <<v>> for the chosen branch's value, <<>> for None
_recursive_search_cmd(command, value) ==
    LET r == search_loop(command, value, <<>>, <<>>)
    IN  IF r[1] # <<>> THEN r[1]
        ELSE IF r[2] # <<>> THEN r[2]
        ELSE <<>>

\* the narrowing walk over search_list: <<v>> or <<>>
RECURSIVE narrow(_, _)
narrow(command, search_list) ==
    IF search_list = <<>> THEN <<command>>
    ELSE LET found == _recursive_search_cmd(command, Head(search_list))
         IN  IF found = <<>> THEN <<>>
             ELSE narrow(found[1], Tail(search_list))

---------------------------------------------------------------------------
(* The device state a handler works on *)

Cur == [attributes |-> attributes, hop_array |-> hop_array,
        last_sent_msg |-> last_sent_msg, last_rcvd_msg |-> last_rcvd_msg,
        recent_inc_msgs |-> recent_inc_msgs,
        device_msg_queue |-> device_msg_queue,
        state_machine |-> state_machine, aldb |-> aldb,
        wait_to_send |-> wait_to_send, plm_msg_queue |-> plm_msg_queue,
        plm_pending_ack |-> plm_pending_ack, out_history |-> out_history,
        printed |-> <<>>, raised |-> raised,
        triggers |-> triggers, sequence |-> sequence]

Commit(s) ==
    /\ attributes' = s.attributes
    /\ hop_array' = s.hop_array
    /\ last_sent_msg' = s.last_sent_msg
    /\ last_rcvd_msg' = s.last_rcvd_msg
    /\ recent_inc_msgs' = s.recent_inc_msgs
    /\ device_msg_queue' = s.device_msg_queue
    /\ state_machine' = s.state_machine
    /\ aldb' = s.aldb
    /\ wait_to_send' = s.wait_to_send
    /\ plm_msg_queue' = s.plm_msg_queue
    /\ plm_pending_ack' = s.plm_pending_ack
    /\ out_history' = s.out_history
    /\ printed' = s.printed
    /\ raised' = s.raised
    /\ triggers' = s.triggers
    /\ sequence' = s.sequence

\* print(...)
Log(s, line) == [s EXCEPT !.printed = Append(@, line)]

\* an exception leaves the handler
Raise(s, exception) == [s EXCEPT !.raised = exception]

\* self.attribute(name, value)
SetAttribute(s, name, value) == [s EXCEPT !.attributes[name] = value]

\* self.last_sent_msg.insteon_msg.device_ack = True; a frame put back on the
\* queue by _resend_msg is the same object and shows the flag too
set_device_ack(s) ==
    [s EXCEPT !.last_sent_msg.device_ack = TRUE,
              !.device_msg_queue =
                  [l \in Labels |->
                      [i \in 1..Len(@[l]) |->
                          IF @[l][i].is_last_sent
                          THEN [@[l][i] EXCEPT !.device_ack = TRUE]
                          ELSE @[l][i]]]]

\* faulty variant of plm_wait_to_send: the value written replaces the delay
\* in force
plm_wait_to_send_overwrite(s, value) ==
    [s EXCEPT !.wait_to_send = now + value]
\* the setter of the modem's wait_to_send: the larger remaining delay wins
plm_wait_to_send(s, value) ==
    [s EXCEPT !.wait_to_send = Max(@, now + value)]

\* Root_Insteon._queue_device_msg
_queue_device_msg(s, message) ==
    [s EXCEPT !.device_msg_queue[message.state_machine] = Append(@, message)]

\* Root_Insteon._resend_msg: the same frame goes back to the head of its
\* label's queue with plm_ack reset
_resend_msg(s, message) ==
    [s EXCEPT !.last_sent_msg.plm_ack = FALSE,
              !.plm_pending_ack = FALSE,
              !.device_msg_queue[message.state_machine] =
                  <<[message EXCEPT !.plm_ack = FALSE,
                                    !.is_last_sent = TRUE]>> \o @]

\* Root_Insteon.remove_state_machine: the label's queued frames are dropped
\* and the device leaves the state
remove_state_machine(s, label) ==
    [s EXCEPT !.device_msg_queue[label] = <<>>,
              !.state_machine = IF @ = label THEN "" ELSE @]

\* PLM.remove_state_machine
plm_remove_state_machine(s, label) ==
    [s EXCEPT !.plm_msg_queue =
        SelectSeq(@, LAMBDA m : m.state_machine # label)]

---------------------------------------------------------------------------
(* Outgoing message handling *)

\* PLM_Message(plm, device, plm_cmd='insteon_send', dev_cmd=command): the frame
\* of the command `command_name` built from the template `command`
PLM_Message(command_name, command) ==
    [name |-> command_name,
     cmd_1 |-> command.cmd_1,
     cmd_2 |-> command.cmd_2,
     usr_3 |-> IF command.msg_length = "extended" THEN 0 ELSE NONE,
     usr_4 |-> IF command.msg_length = "extended" THEN 0 ELSE NONE,
     msb_slot |-> command.msb_slot,
     lsb_slot |-> command.lsb_slot,
     group_slot |-> command.group_slot,
     msg_length |-> command.msg_length,
     state_machine |-> "",
     plm_ack |-> FALSE, device_ack |-> FALSE,
     is_last_sent |-> FALSE]

\* the template a schema tree reaches along its first branches
RECURSIVE first_template(_, _)
first_template(command, levels) ==
    IF levels = 0 THEN command
    ELSE first_template(Head(command).value, levels - 1)

\* faulty variant of create_message: a command the narrowing eliminates is
\* built from the first template of its schema
create_message_unchecked(s, command_name) ==
    IF command_name \notin DOMAIN COMMAND_SCHEMA THEN <<>>
    ELSE <<PLM_Message(command_name,
                       first_template(COMMAND_SCHEMA[command_name], 3))>>
\* create_message: <<message>> or <<>> (None)
create_message(s, command_name) ==
    IF command_name \notin DOMAIN COMMAND_SCHEMA THEN <<>>
    ELSE LET cmd_schema == narrow(COMMAND_SCHEMA[command_name],
                                  <<s.attributes.dev_cat,
                                    s.attributes.sub_cat,
                                    s.attributes.firmware>>)
         IN  IF cmd_schema = <<>> THEN <<>>
             ELSE <<PLM_Message(command_name, cmd_schema[1])>>

\* the slot of `message` that the byte name `byte_name` stands for
slot_of(message, byte_name) ==
    IF byte_name = "msb" THEN message.msb_slot
    ELSE IF byte_name = "lsb" THEN message.lsb_slot
    ELSE IF byte_name = "group" THEN message.group_slot
    ELSE byte_name

\* message._insert_bytes_into_raw(dev_bytes): dev_bytes maps byte names to
\* values; a name the command does not have is ignored
_insert_bytes_into_raw(message, dev_bytes) ==
    LET value_of(slot) ==
            {dev_bytes[n] : n \in {n \in DOMAIN dev_bytes :
                                      slot_of(message, n) = slot}}
        put(slot, old) ==
            IF value_of(slot) = {} THEN old
            ELSE CHOOSE v \in value_of(slot) : TRUE
    IN  [message EXCEPT !.cmd_2 = put("cmd_2", @),
                        !.usr_3 = put("usr_3", @),
                        !.usr_4 = put("usr_4", @)]

\* message.get_byte_by_name
get_byte_by_name(message, byte_name) ==
    LET slot == slot_of(message, byte_name)
    IN  CASE slot = "cmd_1" -> message.cmd_1
          [] slot = "cmd_2" -> message.cmd_2
          [] slot = "usr_3" -> message.usr_3
          [] slot = "usr_4" -> message.usr_4
          [] OTHER -> NONE

\* dev_bytes = {}
NoBytes == [n \in {} |-> 0]

\* what create_message prints when it returns None
log_no_message(s, command_name) ==
    IF command_name \notin DOMAIN COMMAND_SCHEMA
    THEN Log(s, "command not found")
    ELSE Log(s, "not available for this device")

send_command(s, command_name, state, dev_bytes) ==
    LET message == create_message(s, command_name)
    IN  IF message = <<>> THEN log_no_message(s, command_name)
        ELSE _queue_device_msg(s,
                 [_insert_bytes_into_raw(message[1], dev_bytes)
                     EXCEPT !.state_machine = state])

\* GenericSendHandler.msg_schema: the outgoing commands of the generic handler
msg_schema ==
    [name \in {"product_data_request", "enter_link_mode", "get_engine_version",
               "light_status_request", "id_request", "on", "cleanup_on", "off",
               "cleanup_off", "set_address_msb", "poke_one_byte",
               "peek_one_byte", "read_aldb", "write_aldb"} |->
        CASE name = "product_data_request" -> Template(3, 0, "standard", "", "")
          [] name = "enter_link_mode" -> GroupTemplate(9, 0, "extended")
          [] name = "get_engine_version" -> Template(13, 0, "standard", "", "")
          [] name = "light_status_request" -> Template(25, 0, "standard", "", "")
          [] name = "id_request" -> Template(16, 0, "standard", "", "")
          [] name = "on" -> Template(17, 255, "standard", "", "")
          [] name = "cleanup_on" -> GroupTemplate(17, 0, "standard")
          [] name = "off" -> Template(19, 0, "standard", "", "")
          [] name = "cleanup_off" -> GroupTemplate(19, 0, "standard")
          [] name = "set_address_msb" -> Template(40, 0, "standard", "cmd_2", "")
          [] name = "poke_one_byte" -> Template(41, 0, "standard", "", "cmd_2")
          [] name = "peek_one_byte" -> Template(43, 0, "standard", "", "cmd_2")
          [] name = "read_aldb" -> Template(47, 0, "extended", "usr_3", "usr_4")
          [] name = "write_aldb" -> Template(47, 0, "extended", "usr_3", "usr_4")]

\* GenericSendHandler.create_message: <<message>> or <<>> (None)
generic_create_message(command_name) ==
    IF command_name \notin DOMAIN msg_schema THEN <<>>
    ELSE <<PLM_Message(command_name, msg_schema[command_name])>>

\* GenericSendHandler.send_command
generic_send_command(s, command_name, state) ==
    LET message == generic_create_message(command_name)
    IN  IF message = <<>>
        THEN Log(s, "command not found for this device. Run DevCat?")
        ELSE _queue_device_msg(s, [message[1] EXCEPT !.state_machine = state])

_init_step_3(s) == send_command(s, "light_status_request", "", NoBytes)

\* faulty variant of _init_step_2: id_request only if all three are unknown
_init_step_2_and(s) ==
    IF s.attributes.dev_cat = NONE /\ s.attributes.sub_cat = NONE
       /\ s.attributes.firmware = NONE
    THEN send_command(s, "id_request", "", NoBytes)
    ELSE _init_step_3(s)
_init_step_2(s) ==
    IF s.attributes.dev_cat = NONE \/ s.attributes.sub_cat = NONE
       \/ s.attributes.firmware = NONE
    THEN send_command(s, "id_request", "", NoBytes)
    ELSE _init_step_3(s)

_init_step_1(s) ==
    IF s.attributes.engine_version = NONE
    THEN send_command(s, "get_engine_version", "", NoBytes)
    ELSE _init_step_2(s)

\* add_plm_to_dev_link: all_link_start goes on the modem's queue
add_plm_to_dev_link(s) ==
    [s EXCEPT !.plm_msg_queue =
        Append(@, [name |-> "all_link_start", link_code |-> 1, group |-> 0,
                   state_machine |-> "link plm->device"])]

add_plm_to_dev_link_step2(s) ==
    LET message == create_message(s, "enter_link_mode")
    IN  IF message = <<>> THEN Raise(s, "AttributeError")
        ELSE _queue_device_msg(s,
                 [_insert_bytes_into_raw(message[1], [n \in {"cmd_2"} |-> 0])
                     EXCEPT !.state_machine = "link plm->device"])

add_plm_to_dev_link_step4(s) ==
    _init_step_2(
        remove_state_machine(
            plm_remove_state_machine(Log(s, "plm->device link created"),
                                     "link plm->device"),
            "link plm->device"))

\* faulty variant of add_plm_to_dev_link_fail: only the modem's label is
\* torn down
add_plm_to_dev_link_fail_modem_only(s) ==
    plm_remove_state_machine(
        Log(s, "Error, unable to create plm->device link"),
        "link plm->device")
\* add_plm_to_dev_link_fail: the failure callback of both frames
add_plm_to_dev_link_fail(s) ==
    remove_state_machine(
        plm_remove_state_machine(
            Log(s, "Error, unable to create plm->device link"),
            "link plm->device"),
        "link plm->device")

---------------------------------------------------------------------------
(* Triggers, the ALDB and the i1 scan *)

\* InsteonTrigger(device, command_name, attributes): `cmd_2` is the value the
\* attributes require of cmd_2 (NONE: no attribute), `function` names the
\* step trigger_function runs and `arg` is the lsb that step was closed over
Trigger(command_name, cmd_2, function, arg, name) ==
    [command_name |-> command_name, cmd_2 |-> cmd_2, function |-> function,
     arg |-> arg, name |-> name]

\* trigger.queue()
queue_trigger(s, trigger) == [s EXCEPT !.triggers = Append(@, trigger)]

\* Device_ALDB._get_aldb_key: a record is keyed by (msb, lsb & 0xF8)
_get_aldb_key(msb, lsb) == <<msb, lsb - (lsb % 8)>>

\* bytearray(8)
EmptyRecord == [i \in 1..8 |-> 0]

\* Device_ALDB.clear_all_records
clear_all_records(s) == [s EXCEPT !.aldb = [k \in {} |-> <<>>]]

\* Device_ALDB.edit_record
edit_record(s, key, record) ==
    [s EXCEPT !.aldb = [k \in DOMAIN @ \cup {key} |->
                            IF k = key THEN record ELSE @[k]]]

\* Device_ALDB.edit_record_byte: byte `position` (0..7) of the record
edit_record_byte(s, key, position, byte) ==
    LET record == IF key \in DOMAIN s.aldb THEN s.aldb[key] ELSE EmptyRecord
    IN  edit_record(s, key, [record EXCEPT ![position + 1] = byte])

\* is_last_aldb: bit 7 of link_flags is clear
is_last_aldb(s, key) == s.aldb[key][1] < 128

\* is_empty_aldb: the body is all zero
is_empty_aldb(s, key) == \A i \in 1..8 : s.aldb[key][i] = 0

\* search_last_sent_msg(insteon_cmd=...): the frame of that command last sent
search_last_sent_msg(s, insteon_cmd) == s.out_history[insteon_cmd]

\* GenericSendHandler.peek_aldb
peek_aldb(s, lsb) ==
    LET message == create_message(s, "peek_one_byte")
    IN  IF message = <<>> THEN Raise(s, "AttributeError")
        ELSE _queue_device_msg(s,
                 _insert_bytes_into_raw(message[1], [n \in {"lsb"} |-> lsb]))

\* set_address_msb goes out with a trigger on its ack that runs `function`
\* for the byte at lsb
start_aldb_entry_query(s, msb, lsb, function) ==
    LET queued == queue_trigger(s, Trigger("set_address_msb", msb, function,
                                           lsb, "query_aldb"))
        message == create_message(queued, "set_address_msb")
    IN  IF message = <<>> THEN Raise(queued, "AttributeError")
        ELSE _queue_device_msg(queued,
                 _insert_bytes_into_raw(message[1], [n \in {"msb"} |-> msb]))

\* Device_ALDB.i1_start_aldb_entry_query: once the msb is acked the byte at
\* lsb is peeked
i1_start_aldb_entry_query(s, msb, lsb) ==
    start_aldb_entry_query(s, msb, lsb, "peek_aldb")

\* ScanDeviceALDBi1._i1_start_aldb_entry_query
_i1_start_aldb_entry_query(s, msb, lsb) ==
    start_aldb_entry_query(s, msb, lsb, "_send_peek_request")

\* ScanDeviceALDBi1._send_peek_request
_send_peek_request(s, lsb) ==
    LET queued == queue_trigger(s, Trigger("peek_one_byte", NONE,
                                           "_get_byte_address", NONE,
                                           "query_aldb"))
        message == create_message(queued, "peek_one_byte")
    IN  IF message = <<>> THEN Raise(queued, "AttributeError")
        ELSE _queue_device_msg(queued,
                 _insert_bytes_into_raw(message[1], [n \in {"lsb"} |-> lsb]))

\* faulty variant of next_aldb_address: the last byte of a page goes to the
\* top of the same page
next_aldb_address_same_page(s, msb, lsb) ==
    IF is_empty_aldb(s, _get_aldb_key(msb, lsb))
    THEN [msb |-> msb, lsb |-> lsb - (8 + (lsb % 8))]
    ELSE IF lsb = 7 THEN [msb |-> msb, lsb |-> 248]
    ELSE IF lsb % 8 = 7 THEN [msb |-> msb, lsb |-> lsb - 15]
    ELSE [msb |-> msb, lsb |-> lsb + 1]
\* the address the scan reads after the byte at (msb, lsb): an empty record
\* skips to the record below, the last byte of a page goes to the page
\* below, the last byte of a record to the record below
next_aldb_address(s, msb, lsb) ==
    IF is_empty_aldb(s, _get_aldb_key(msb, lsb))
    THEN [msb |-> msb, lsb |-> lsb - (8 + (lsb % 8))]
    ELSE IF lsb = 7 THEN [msb |-> msb - 1, lsb |-> 248]
    ELSE IF lsb % 8 = 7 THEN [msb |-> msb, lsb |-> lsb - 15]
    ELSE [msb |-> msb, lsb |-> lsb + 1]

\* Device_ALDB.get_next_aldb_address
get_next_aldb_address(s, msb, lsb) == next_aldb_address(s, msb, lsb)

\* SetALDBDelta(...).start(): a status request in the set_aldb_delta state,
\* whose ack runs the success callback `on_success`
SetALDBDelta_start(s, on_success) ==
    send_command(queue_trigger(s, Trigger("light_status_request", NONE,
                                          on_success, NONE, "set_aldb_delta")),
                 "light_status_request", "set_aldb_delta", NoBytes)

\* faulty variant of _get_byte_address: the scan reads on past the last
\* record
_get_byte_address_past_last(s) ==
    LET lsb == s.last_sent_msg.cmd_2
        msb_msg == search_last_sent_msg(s, "set_address_msb")
        msb == msb_msg.cmd_2
        aldb_key == _get_aldb_key(msb, lsb)
        dev_bytes == [msb |-> msb, lsb |-> (lsb + 1) % 256]
    IN  IF msb_msg = NoMsg THEN Raise(s, "AttributeError")
        ELSE IF aldb_key \notin DOMAIN s.aldb THEN Raise(s, "KeyError")
        ELSE _send_peek_request(s, dev_bytes.lsb)
\* ScanDeviceALDBi1._get_byte_address
_get_byte_address(s) ==
    LET lsb == s.last_sent_msg.cmd_2
        msb_msg == search_last_sent_msg(s, "set_address_msb")
        msb == msb_msg.cmd_2
        aldb_key == _get_aldb_key(msb, lsb)
        dev_bytes == get_next_aldb_address(s, msb, lsb)
    IN  IF msb_msg = NoMsg THEN Raise(s, "AttributeError")
        ELSE IF aldb_key \notin DOMAIN s.aldb THEN Raise(s, "KeyError")
        ELSE IF is_last_aldb(s, aldb_key)
        THEN SetALDBDelta_start(s, "ScanDeviceALDBi1._on_success")
        ELSE IF msb # dev_bytes.msb
        THEN _i1_start_aldb_entry_query(s, dev_bytes.msb, dev_bytes.lsb)
        ELSE _send_peek_request(s, dev_bytes.lsb)

\* ScanDeviceALDBi1.start
ScanDeviceALDBi1_start(s) ==
    _i1_start_aldb_entry_query(clear_all_records(s), 15, 248)

\* ScanDeviceALDBi2.start: the first record is asked for with read_aldb(0, 0)
ScanDeviceALDBi2_start(s) ==
    send_command(clear_all_records(s), "read_aldb", "",
                 [n \in {"msb", "lsb"} |-> 0])

\* GenericSendHandler.query_aldb
generic_query_aldb(s) ==
    IF s.attributes.engine_version = 0
    THEN ScanDeviceALDBi1_start(s)
    ELSE ScanDeviceALDBi2_start(s)

\* faulty variant of store_peeked_byte: the record is keyed by the address
\* of the byte
store_peeked_byte_raw_key(s, msb, lsb, byte) ==
    LET key == <<msb, lsb>>
        zeroed == IF lsb % 8 = 0 THEN edit_record(s, key, EmptyRecord) ELSE s
    IN  edit_record_byte(zeroed, key, lsb % 8, byte)
\* ack_peek_aldb, the byte read at (msb, lsb) goes into its record: a record
\* is zeroed when its first byte arrives
store_peeked_byte(s, msb, lsb, byte) ==
    LET key == _get_aldb_key(msb, lsb)
        zeroed == IF lsb % 8 = 0 THEN edit_record(s, key, EmptyRecord) ELSE s
    IN  edit_record_byte(zeroed, key, lsb % 8, byte)

\* Insteon_Device.ack_peek_aldb; it returns None
ack_peek_aldb(s, msg) ==
    IF ~(s.last_sent_msg.name = "peek_one_byte" /\ ~s.last_sent_msg.device_ack)
    THEN s
    ELSE LET peek_msg == search_last_sent_msg(s, "peek_one_byte")
             lsb == peek_msg.cmd_2
             msb_msg == search_last_sent_msg(s, "set_address_msb")
             msb == msb_msg.cmd_2
             key == _get_aldb_key(msb, lsb)
             stored == store_peeked_byte(s, msb, lsb, msg.cmd_2)
         IN  IF msb_msg = NoMsg THEN Raise(s, "AttributeError")
             ELSE IF is_last_aldb(stored, key)
             THEN send_command(remove_state_machine(stored, "query_aldb"),
                               "light_status_request", "set_aldb_delta",
                               NoBytes)
             ELSE IF is_empty_aldb(stored, key)
             THEN peek_aldb(Log(stored, "empty record"),
                            lsb - (8 + (lsb % 8)))
             ELSE IF lsb = 7
             THEN i1_start_aldb_entry_query(stored, msb - 1, 248)
             ELSE IF lsb % 8 = 7
             THEN peek_aldb(stored, lsb - 15)
             ELSE peek_aldb(stored, lsb + 1)

\* the peek ack of a device driven by sequences: the byte is stored and the
\* sequence's trigger decides what follows
peek_rcvd(s, msg) ==
    IF ~(s.last_sent_msg.name = "peek_one_byte" /\ ~s.last_sent_msg.device_ack)
    THEN s
    ELSE LET msb_msg == search_last_sent_msg(s, "set_address_msb")
         IN  IF msb_msg = NoMsg THEN Raise(s, "AttributeError")
             ELSE store_peeked_byte(s, msb_msg.cmd_2, s.last_sent_msg.cmd_2,
                                    msg.cmd_2)

---------------------------------------------------------------------------
(* The i1 record write *)

\* WriteALDBRecordi1._addr_byte_by_lsb: the byte of the record to write that
\* belongs at lsb
_addr_byte_by_lsb(s, lsb) == s.sequence.write_record[(lsb % 8) + 1]

\* the sequence's _on_success and _on_failure: the stored callback is invoked
_on_success(s, counter) == [s EXCEPT !.sequence[counter] = @ + 1]
_on_failure(s, counter) == [s EXCEPT !.sequence[counter] = @ + 1]

\* _WriteMSBi1.aldb_start
aldb_start(s, msb) ==
    IF msb = 0 THEN _on_failure(s, "write_failure")
    ELSE LET queued == queue_trigger(s, Trigger("set_address_msb", msb,
                                                "_WriteMSBi1._on_success",
                                                NONE, "set_msb"))
             message == create_message(queued, "set_address_msb")
         IN  IF message = <<>> THEN Raise(queued, "AttributeError")
             ELSE _queue_device_msg(queued,
                      _insert_bytes_into_raw(message[1],
                                             [n \in {"msb"} |-> msb]))

\* WriteALDBRecordi1._write_complete
_write_complete(s) ==
    LET aldb_entry == s.sequence.write_record
        key == _get_aldb_key(s.sequence.write_address[1],
                             s.sequence.write_address[2])
        edited == edit_record(s, key, aldb_entry)
    IN  SetALDBDelta_start(
            [edited EXCEPT !.sequence.write_complete = @ + 1],
            "WriteALDBRecordi1._on_success")

\* the loop of _perform_write that skips bytes that need not be written
RECURSIVE skip_written(_, _, _)
skip_written(s, record_parsed, lsb) ==
    IF lsb % 8 < 7 /\ _addr_byte_by_lsb(s, lsb) = record_parsed[(lsb % 8) + 1]
    THEN skip_written(s, record_parsed, lsb + 1)
    ELSE lsb


\* faulty variant of _perform_write: in_use is not looked at
_perform_write_ignore_in_use(s, lsb_arg) ==
    LET first == IF lsb_arg = NONE THEN s.sequence.write_address[2] - 7
                 ELSE lsb_arg
        aldb_key == _get_aldb_key(s.sequence.write_address[1],
                                  s.sequence.write_address[2])
        lsb == IF aldb_key \in DOMAIN s.aldb
               THEN skip_written(s, s.aldb[aldb_key], first)
               ELSE first
        queued == queue_trigger(s, Trigger("peek_one_byte", NONE,
                                           "_send_poke_request", lsb,
                                           "write_aldb"))
        message == create_message(queued, "peek_one_byte")
    IN  IF lsb % 8 >= 7
        THEN _write_complete(s)
        ELSE IF message = <<>> THEN Raise(queued, "AttributeError")
        ELSE _queue_device_msg(queued,
                 _insert_bytes_into_raw(message[1], [n \in {"lsb"} |-> lsb]))
\* WriteALDBRecordi1._perform_write; lsb_arg is NONE for lsb=None
_perform_write(s, lsb_arg) ==
    LET first == IF lsb_arg = NONE THEN s.sequence.write_address[2] - 7
                 ELSE lsb_arg
        aldb_key == _get_aldb_key(s.sequence.write_address[1],
                                  s.sequence.write_address[2])
        lsb == IF aldb_key \in DOMAIN s.aldb
               THEN skip_written(s, s.aldb[aldb_key], first)
               ELSE first
        queued == queue_trigger(s, Trigger("peek_one_byte", NONE,
                                           "_send_poke_request", lsb,
                                           "write_aldb"))
        message == create_message(queued, "peek_one_byte")
    IN  IF lsb % 8 >= 7 \/ (lsb % 8 >= 1 /\ ~s.sequence.write_in_use)
        THEN _write_complete(s)
        ELSE IF message = <<>> THEN Raise(queued, "AttributeError")
        ELSE _queue_device_msg(queued,
                 _insert_bytes_into_raw(message[1], [n \in {"lsb"} |-> lsb]))

\* WriteALDBRecordi1._send_poke_request
_send_poke_request(s, lsb) ==
    LET lsb_byte == _addr_byte_by_lsb(s, lsb)
        callback == IF lsb % 8 < 7 THEN "_perform_write" ELSE "_write_complete"
        queued == queue_trigger(s, Trigger("poke_one_byte", lsb_byte, callback,
                                           lsb + 1, "write_aldb"))
        message == create_message(queued, "poke_one_byte")
    IN  IF message = <<>> THEN Raise(queued, "AttributeError")
        ELSE _queue_device_msg(queued,
                 _insert_bytes_into_raw(message[1],
                                        [n \in {"lsb"} |-> lsb_byte]))

\* WriteALDBRecord.start for an i1 device: the record, its address (msb and
\* the lsb of its last byte) and in_use are kept, the msb is set, and on its
\* ack the bytes are written
WriteALDBRecordi1_start(s, address, record, in_use) ==
    LET key == _get_aldb_key(address[1], address[2])
    IN  aldb_start(
            [s EXCEPT !.sequence.write_address = address,
                      !.sequence.write_record = record,
                      !.sequence.write_in_use = in_use,
                      !.sequence.write_cached =
                          IF key \in DOMAIN s.aldb THEN s.aldb[key] ELSE <<>>,
                      !.sequence.write_started = TRUE],
            address[1])

---------------------------------------------------------------------------
(* Trigger firing *)

\* the step a trigger's trigger_function runs
run_trigger_function(s, trigger) ==
    CASE trigger.function = "peek_aldb" -> peek_aldb(s, trigger.arg)
      [] trigger.function = "_send_peek_request" ->
            _send_peek_request(s, trigger.arg)
      [] trigger.function = "_get_byte_address" -> _get_byte_address(s)
      [] trigger.function = "ScanDeviceALDBi1._on_success" ->
            _on_success(s, "scan_success")
      [] trigger.function = "_WriteMSBi1._on_success" ->
            _perform_write(s, NONE)
      [] trigger.function = "_send_poke_request" ->
            _send_poke_request(s, trigger.arg)
      [] trigger.function = "_perform_write" -> _perform_write(s, trigger.arg)
      [] trigger.function = "_write_complete" -> _write_complete(s)
      [] trigger.function = "WriteALDBRecordi1._on_success" ->
            _on_success(s, "write_success")

\* the position in the registry of the trigger an ack to last_sent_msg
\* fires: the most recently queued one for that command whose attribute, if
\* any, is the ack's cmd_2; 0 if there is none
matching_trigger(s, msg) ==
    LET hits == {i \in 1..Len(s.triggers) :
                    /\ s.triggers[i].command_name = s.last_sent_msg.name
                    /\ \/ s.triggers[i].cmd_2 = NONE
                       \/ s.triggers[i].cmd_2 = msg.cmd_2}
    IN  IF hits = {} THEN 0
        ELSE CHOOSE i \in hits : \A j \in hits : j <= i

\* after the handlers of an ack that was taken as the answer to
\* last_sent_msg, the matching trigger is removed and fired
fire_trigger(before, s, msg) ==
    LET i == matching_trigger(s, msg)
    IN  IF s.raised # "none" \/ before.last_sent_msg.device_ack
           \/ ~s.last_sent_msg.device_ack \/ i = 0
        THEN s
        ELSE run_trigger_function(
                 [s EXCEPT !.triggers = SubSeq(@, 1, i - 1)
                                        \o SubSeq(@, i + 1, Len(@))],
                 s.triggers[i])

\* Device_ALDB.query_aldb: clear all records, then start the scan: an i1
\* device is asked for set_address_msb(0x0F), any other for read_aldb(0, 0)
query_aldb(s) ==
    IF s.attributes.engine_version = 0
    THEN i1_start_aldb_entry_query(clear_all_records(s), 15, 248)
    ELSE send_command(clear_all_records(s), "read_aldb", "",
                      [n \in {"msb", "lsb"} |-> 0])

---------------------------------------------------------------------------
(* Incoming message handling *)

_hops_used_from_msg(msg) == msg.max_hops - msg.hops_left

\* faulty variant of _add_to_hop_array: the newest samples are dropped
_add_to_hop_array_keep_oldest(s, hops_used) ==
    LET appended == Append(s.hop_array, hops_used)
    IN  [s EXCEPT !.hop_array =
            IF Len(appended) > 10 THEN SubSeq(appended, 1, 10) ELSE appended]
_add_to_hop_array(s, hops_used) ==
    LET appended == Append(s.hop_array, hops_used)
        extra_data == Len(appended) - 10
    IN  [s EXCEPT !.hop_array =
            IF extra_data > 0
            THEN SubSeq(appended, extra_data + 1, Len(appended))
            ELSE appended]

\* _set_plm_wait: hop_delay * hops_left + 5 milliseconds
_set_plm_wait(s, msg) ==
    LET hop_delay == IF msg.msg_length = "standard" THEN 50 ELSE 109
        total_delay == hop_delay * msg.hops_left
    IN  plm_wait_to_send(s, total_delay + 5)

\* BYTE_TO_HEX: two hex digits for each byte
RECURSIVE BYTE_TO_HEX(_)
BYTE_TO_HEX(bytes) ==
    IF bytes = <<>> THEN <<>>
    ELSE <<Head(bytes) \div 16, Head(bytes) % 16>> \o BYTE_TO_HEX(Tail(bytes))

\* msg.raw_msg: 0x02 0x50, from address, to address, flags, cmd_1, cmd_2 and
\* the user bytes of an extended frame
raw_msg(msg) ==
    <<2, 80>> \o DevAddr \o msg.to_addr
        \o <<msg.raw_8, msg.cmd_1, msg.cmd_2>> \o msg.usr

\* the frame once _get_search_key has run: search_bytes is the frame's own
\* buffer, so byte 8 of the frame keeps its high nibble only
zero_hops(msg) == [msg EXCEPT !.raw_8 = @ - (@ % 16)]

_get_search_key(msg) == BYTE_TO_HEX(raw_msg(zero_hops(msg)))

_clear_stale_dupes(s) ==
    [s EXCEPT !.recent_inc_msgs =
        [k \in {k \in DOMAIN @ : ~(@[k] < now)} |-> @[k]]]

\* faulty variant of _is_msg_in_recent: nothing is ever found in the cache
_is_msg_in_recent_never(s, msg) == FALSE
_is_msg_in_recent(s, msg) == _get_search_key(msg) \in DOMAIN s.recent_inc_msgs

_store_msg_in_recent(s, msg) ==
    LET search_key == _get_search_key(msg)
        hop_delay == IF msg.msg_length = "standard" THEN 87 ELSE 183
        total_delay == hop_delay * msg.hops_left
        expire_time == now + total_delay
    IN  [s EXCEPT !.recent_inc_msgs =
            [k \in DOMAIN @ \cup {search_key} |->
                IF k = search_key THEN expire_time ELSE @[k]]]

\* faulty variant of _is_valid_direct_ack: plm_ack is not looked at
_is_valid_direct_ack_ignore_plm_ack(s) ==
    ~(s.last_sent_msg.device_ack # FALSE)
\* _is_valid_direct_ack, for a last_sent_msg that is not None
_is_valid_direct_ack(s) ==
    IF s.last_sent_msg.plm_ack # TRUE THEN FALSE
    ELSE IF s.last_sent_msg.device_ack # FALSE THEN FALSE
    ELSE TRUE

\* what _is_valid_direct_ack prints when it returns False
log_invalid_direct_ack(s) ==
    IF s.last_sent_msg.plm_ack # TRUE
    THEN Log(s, "ignoring a device response received before PLM ack")
    ELSE Log(s, "ignoring an unexpected device response")

\* the nack of a device whose engine_version is 0x00 or 0x01
i1_nack(s, msg) ==
    plm_wait_to_send(Log(s, "device nacked the last command, resending"), 1000)

\* faulty variant of i2cs_nack: cmd_2 is not looked at
i2cs_nack_plain(s, msg) == i1_nack(s, msg)
\* the nack reasons of an i2cs device: cmd_2 of a nack that answers the
\* command last sent
i2cs_nack(s, msg) ==
    LET cmd_2 == msg.cmd_2
    IN  CASE cmd_2 = 255 ->
                add_plm_to_dev_link(Log(
                    remove_state_machine(
                        set_device_ack(
                            SetAttribute(
                                Log(s, "nack received, senders ID not in database"),
                                "engine_version", 2)),
                        s.last_sent_msg.state_machine),
                    "creating plm->device link"))
          [] cmd_2 = 254 ->
                set_device_ack(
                    SetAttribute(Log(s, "nack received, no load"),
                                 "engine_version", 2))
          [] cmd_2 = 253 ->
                LET s1 == plm_wait_to_send(
                            SetAttribute(
                                Log(s, "nack received, checksum is incorrect, resending"),
                                "engine_version", 2),
                            1000)
                IN  _resend_msg(s1, s1.last_sent_msg)
          [] cmd_2 = 252 ->
                set_device_ack(
                    SetAttribute(
                        Log(s, "nack received, Pre nack in case database search takes too long"),
                        "engine_version", 2))
          [] cmd_2 = 251 ->
                set_device_ack(
                    SetAttribute(
                        Log(s, "nack received, illegal value in command"),
                        "engine_version", 2))
          [] OTHER ->
                LET s1 == plm_wait_to_send(
                            Log(s, "device nacked the last command, no further details, resending"),
                            1000)
                IN  _resend_msg(s1, s1.last_sent_msg)

_process_direct_nack(s0, msg) ==
    LET s == _add_to_hop_array(s0, _hops_used_from_msg(msg))
    IN  IF s.last_sent_msg = NoMsg THEN Raise(s, "AttributeError")
        ELSE IF ~_is_valid_direct_ack(s) THEN log_invalid_direct_ack(s)
        ELSE IF s.last_sent_msg.cmd_1 = msg.cmd_1
        THEN IF s.attributes.engine_version = 2
                \/ s.attributes.engine_version = NONE
             THEN i2cs_nack(s, msg)
             ELSE i1_nack(s, msg)
        ELSE Log(s, "ignoring unmatched nack")

\* _set_engine_version; it returns None
_set_engine_version(s, msg) ==
    LET version == msg.cmd_2
    IN  IF version >= 251
        THEN _process_direct_nack(SetAttribute(s, "engine_version", 2), msg)
        ELSE _init_step_2(SetAttribute(s, "engine_version", version))

\* faulty variant of ack_set_msb: the msb the ack carries is not compared
ack_set_msb_any_msb(s, msg) == s.last_sent_msg.name = "set_address_msb"
\* ack_set_msb: the ack answers the set_address_msb last sent
ack_set_msb(s, msg) ==
    s.last_sent_msg.name = "set_address_msb"
    /\ s.last_sent_msg.cmd_2 = msg.cmd_2

\* command(self, msg) for a handler of STD_DIRECT_ACK_SCHEMA: the state it
\* leaves and whether it returned False
run_ack_handler(command, s, msg) ==
    CASE command = "_set_engine_version" ->
            [state |-> _set_engine_version(s, msg), is_ack |-> TRUE]
      [] command = "ack_set_msb" ->
            [state |-> s, is_ack |-> ack_set_msb(s, msg)]
      [] command = "ack_peek_aldb" ->
            [state |-> IF s.sequence.driver = "handlers"
                       THEN ack_peek_aldb(s, msg) ELSE peek_rcvd(s, msg),
             is_ack |-> TRUE]

\* faulty variants of status_response: the delta is adopted in every state;
\* a changed delta starts no rescan
status_response_always_adopt(s, msg) ==
    set_device_ack(
        SetAttribute(
            remove_state_machine(
                SetAttribute(Log(s, "was status response"),
                             "aldb_delta", msg.cmd_1),
                "set_aldb_delta"),
            "status", msg.cmd_2))
status_response_no_rescan(s, msg) ==
    LET s1 == Log(s, "was status response")
        s2 == IF s1.state_machine = "set_aldb_delta"
              THEN remove_state_machine(
                       SetAttribute(s1, "aldb_delta", msg.cmd_1),
                       "set_aldb_delta")
              ELSE IF s1.attributes.aldb_delta # msg.cmd_1
              THEN Log(s1, "aldb has changed, rescanning")
              ELSE s1
    IN  set_device_ack(SetAttribute(s2, "status", msg.cmd_2))
\* a valid ack while light_status_request is the command last sent: cmd_1 is
\* the ALDB delta, cmd_2 the status
status_response(s, msg) ==
    LET aldb_delta == msg.cmd_1
        s1 == Log(s, "was status response")
        s2 == IF s1.state_machine = "set_aldb_delta"
              THEN remove_state_machine(
                       SetAttribute(s1, "aldb_delta", aldb_delta),
                       "set_aldb_delta")
              ELSE IF s1.attributes.aldb_delta # aldb_delta
              THEN query_aldb(Log(s1, "aldb has changed, rescanning"))
              ELSE s1
    IN  set_device_ack(SetAttribute(s2, "status", msg.cmd_2))

_process_direct_ack(s0, msg) ==
    LET s == _add_to_hop_array(s0, _hops_used_from_msg(msg))
    IN  IF s.last_sent_msg = NoMsg THEN Raise(s, "AttributeError")
        ELSE IF ~_is_valid_direct_ack(s) THEN log_invalid_direct_ack(s)
        ELSE IF s.last_sent_msg.name = "light_status_request"
        THEN status_response(s, msg)
        ELSE IF s.last_sent_msg.cmd_1 = msg.cmd_1
        THEN IF msg.cmd_1 \in DOMAIN STD_DIRECT_ACK_SCHEMA
             THEN LET command == narrow(STD_DIRECT_ACK_SCHEMA[msg.cmd_1],
                                        <<s.attributes.dev_cat,
                                          s.attributes.sub_cat,
                                          s.attributes.firmware,
                                          s.last_sent_msg.cmd_2>>)
                  IN  IF command = <<>>
                      THEN Log(s, "not sure how to respond to this")
                      ELSE LET r == run_ack_handler(command[1], s, msg)
                           IN  IF r.state.raised # "none" THEN r.state
                               ELSE IF r.is_ack THEN set_device_ack(r.state)
                               ELSE r.state
             ELSE set_device_ack(Log(s, "rcvd ack, nothing to do"))
        ELSE Log(s, "ignoring an unmatched ack")

\* faulty variant of _ext_aldb_rcvd: the address of the response is not
\* compared with the address asked for
_ext_aldb_rcvd_unchecked(s, msg) ==
    LET last_msg == search_last_sent_msg(s, "read_aldb")
    IN  IF last_msg = NoMsg THEN Raise(s, "AttributeError")
        ELSE set_device_ack(
                 edit_record(s, _get_aldb_key(msg.usr[3], msg.usr[4]),
                             SubSeq(msg.usr, 6, 13)))
_ext_aldb_rcvd(s, msg) ==
    LET last_msg == search_last_sent_msg(s, "read_aldb")
        req_msb == get_byte_by_name(last_msg, "msb")
        req_lsb == get_byte_by_name(last_msg, "lsb")
        msg_msb == msg.usr[3]
        msg_lsb == msg.usr[4]
    IN  IF last_msg = NoMsg THEN Raise(s, "AttributeError")
        ELSE IF (req_lsb = msg_lsb /\ req_msb = msg_msb)
                \/ (req_lsb = 0 /\ req_msb = 0)
        THEN set_device_ack(
                 edit_record(s, _get_aldb_key(msg_msb, msg_lsb),
                             SubSeq(msg.usr, 6, 13)))
        ELSE s

_process_direct_msg(s0, msg) ==
    LET s == _add_to_hop_array(s0, _hops_used_from_msg(msg))
    IN  IF msg.msg_length = "extended" /\ msg.cmd_1 \in DOMAIN EXT_DIRECT_SCHEMA
        THEN LET command == narrow(EXT_DIRECT_SCHEMA[msg.cmd_1],
                                   <<s.attributes.dev_cat,
                                     s.attributes.sub_cat,
                                     s.attributes.firmware,
                                     msg.cmd_2>>)
             IN  IF command = <<>>
                 THEN Log(s, "not sure how to respond to this")
                 ELSE _ext_aldb_rcvd(s, msg)
        ELSE Log(s, "direct message, that I dont know how to handle")

\* faulty variant of _remove_cleanup_msgs: the scan of a label's queue stops
\* at its first match
_remove_cleanup_msgs_first_only(s, msg) ==
    LET matches(m) == m.cmd_1 = msg.cmd_1 /\ m.cmd_2 = msg.cmd_2
        first(q) == CHOOSE i \in 1..Len(q) :
                        matches(q[i]) /\ \A j \in 1..(i - 1) : ~matches(q[j])
    IN  [s EXCEPT !.device_msg_queue =
            [state \in Labels |->
                IF \E i \in 1..Len(@[state]) : matches(@[state][i])
                THEN SubSeq(@[state], 1, first(@[state]) - 1)
                     \o SubSeq(@[state], first(@[state]) + 1, Len(@[state]))
                ELSE @[state]]]
\* _remove_cleanup_msgs: every queued frame with the cmd_1 and cmd_2 of the
\* ack is deleted from the queue of every label
_remove_cleanup_msgs(s, msg) ==
    [s EXCEPT !.device_msg_queue =
        [state \in Labels |->
            SelectSeq(@[state],
                      LAMBDA m : ~(m.cmd_1 = msg.cmd_1 /\ m.cmd_2 = msg.cmd_2))]]

\* faulty variant of broadcast_rcvd: the sub-category and the firmware are
\* read from each other's byte
broadcast_rcvd_swapped(s, msg) ==
    _init_step_3(
        Log(SetAttribute(
                SetAttribute(
                    SetAttribute(s, "dev_cat", msg.to_addr[1]),
                    "sub_cat", msg.to_addr[3]),
                "firmware", msg.to_addr[2]),
            "rcvd, broadcast updated devcat, subcat, and firmware"))
\* msg_rcvd, message_type 'broadcast'
broadcast_rcvd(s, msg) ==
    _init_step_3(
        Log(SetAttribute(
                SetAttribute(
                    SetAttribute(s, "dev_cat", msg.to_addr[1]),
                    "sub_cat", msg.to_addr[2]),
                "firmware", msg.to_addr[3]),
            "rcvd, broadcast updated devcat, subcat, and firmware"))

\* msg_rcvd, message_type 'alllink_cleanup_ack'
cleanup_ack_rcvd(s, msg) ==
    LET s3 == _remove_cleanup_msgs(s, msg)
    IN  IF s3.last_sent_msg # NoMsg
           /\ s3.last_sent_msg.cmd_1 = msg.cmd_1
           /\ s3.last_sent_msg.cmd_2 = msg.cmd_2
        THEN set_device_ack(s3)
        ELSE s3

msg_rcvd(s0, msg) ==
    LET s1 == _set_plm_wait(s0, msg)
        s2 == _clear_stale_dupes([s1 EXCEPT !.last_rcvd_msg = zero_hops(msg)])
    IN  IF _is_msg_in_recent(s2, msg)
        THEN Log(s2, "Skipped duplicate msg")
        ELSE LET s == _store_msg_in_recent(s2, msg)
             IN  CASE msg.message_type = "direct" -> _process_direct_msg(s, msg)
                   [] msg.message_type = "direct_ack" ->
                        fire_trigger(s, _process_direct_ack(s, msg), msg)
                   [] msg.message_type = "direct_nack" ->
                        _process_direct_nack(s, msg)
                   [] msg.message_type = "broadcast" -> broadcast_rcvd(s, msg)
                   [] msg.message_type = "alllink_cleanup_ack" ->
                        cleanup_ack_rcvd(s, msg)
                   [] OTHER -> s

---------------------------------------------------------------------------
(* Construction *)

\* no sequence object has run: no callback invoked, no record being written
NoSequence ==
    [driver |-> "handlers", scan_started |-> FALSE,
     scan_success |-> 0, scan_failure |-> 0,
     write_address |-> <<0, 0>>, write_record |-> <<>>, write_in_use |-> TRUE,
     write_cached |-> <<>>, write_started |-> FALSE,
     write_complete |-> 0, write_success |-> 0, write_failure |-> 0]

\* no physical device is attached to the run
NoDevice == [msb |-> 0, lsb |-> 0, table |-> <<>>, delta |-> 0, poked |-> {}]

\* no schema is being narrowed
NoSearch == [schema |-> <<>>, attrs |-> <<>>, command |-> <<>>,
             search_list |-> <<>>, selected |-> <<>>, done |-> TRUE]

\* the state __init__ leaves for a device loaded with the persisted
\* attributes `attrs` and hop history `hops`
Constructed(attrs, hops) ==
    _init_step_1(
        [attributes |-> attrs, hop_array |-> hops,
         last_sent_msg |-> NoMsg, last_rcvd_msg |-> NoFrame,
         recent_inc_msgs |-> [k \in {} |-> 0],
         device_msg_queue |-> [l \in Labels |-> <<>>],
         state_machine |-> "", aldb |-> [k \in {} |-> <<>>],
         wait_to_send |-> 0, plm_msg_queue |-> <<>>,
         plm_pending_ack |-> FALSE,
         out_history |-> [n \in CommandNames |-> NoMsg],
         printed |-> <<>>, raised |-> "none",
         triggers |-> <<>>, sequence |-> NoSequence])

\* the device after __init__; `Drivers` says what drives its ALDB scans: the
\* ack handlers of Insteon_Device or the sequence classes and their triggers
InitDriven(Configs, HopInits, Drivers) ==
    \E attrs \in Configs, hops \in HopInits, driver \in Drivers :
        LET s == Constructed(attrs, hops)
        IN  /\ attributes = s.attributes
            /\ hop_array = s.hop_array
            /\ last_sent_msg = s.last_sent_msg
            /\ last_rcvd_msg = s.last_rcvd_msg
            /\ recent_inc_msgs = s.recent_inc_msgs
            /\ device_msg_queue = s.device_msg_queue
            /\ state_machine = s.state_machine
            /\ aldb = s.aldb
            /\ wait_to_send = s.wait_to_send
            /\ plm_msg_queue = s.plm_msg_queue
            /\ plm_pending_ack = s.plm_pending_ack
            /\ out_history = s.out_history
            /\ printed = s.printed
            /\ raised = s.raised
            /\ triggers = s.triggers
            /\ sequence = [s.sequence EXCEPT !.driver = driver]
            /\ now = 0
            /\ n_rcvd = 0

InitDevice(Configs, HopInits) == InitDriven(Configs, HopInits, {"handlers"})

InitFrom(Configs, HopInits) ==
    /\ InitDevice(Configs, HopInits)
    /\ device_mem = NoDevice
    /\ search = NoSearch

\* persisted attribute maps
Attrs(engine_version, dev_cat, sub_cat, firmware, aldb_delta) ==
    [a \in AttrNames |->
        CASE a = "engine_version" -> engine_version
          [] a = "dev_cat" -> dev_cat
          [] a = "sub_cat" -> sub_cat
          [] a = "firmware" -> firmware
          [] a = "aldb_delta" -> aldb_delta
          [] OTHER -> NONE]

FreshAttrs == Attrs(NONE, NONE, NONE, NONE, NONE)

---------------------------------------------------------------------------
(* Actions *)

QueueOk(s) ==
    /\ \A l \in Labels : Len(s.device_msg_queue[l]) <= MaxQueue
    /\ Len(s.plm_msg_queue) <= MaxQueue

\* the modem hands an inbound frame to the device
Rcvd(Frames, max_rcvd) ==
    \E msg \in Frames :
        /\ raised = "none"
        /\ n_rcvd < max_rcvd
        /\ LET s == msg_rcvd(Cur, msg)
           IN  QueueOk(s) /\ Commit(s)
        /\ n_rcvd' = n_rcvd + 1
        /\ now' = now
        /\ UNCHANGED <<device_mem, search>>

\* the modem takes the next frame of a label once wait_to_send has elapsed:
\* it becomes last_sent_msg and the device is in that label's state
Dispatch ==
    \E label \in Labels :
        /\ raised = "none"
        /\ now >= wait_to_send
        /\ device_msg_queue[label] # <<>>
        /\ LET message == [Head(device_msg_queue[label])
                              EXCEPT !.plm_ack = FALSE, !.is_last_sent = FALSE]
               rest == [device_msg_queue EXCEPT ![label] = Tail(@)]
           IN  /\ last_sent_msg' = message
               /\ out_history' = [out_history EXCEPT ![message.name] = message]
               /\ device_msg_queue' =
                     [l \in Labels |->
                         [i \in 1..Len(rest[l]) |->
                             [rest[l][i] EXCEPT !.is_last_sent = FALSE]]]
        /\ state_machine' = label
        /\ plm_pending_ack' = TRUE
        /\ printed' = <<>>
        /\ UNCHANGED <<attributes, hop_array, last_rcvd_msg, recent_inc_msgs,
                       aldb, wait_to_send, plm_msg_queue, raised, now, n_rcvd,
                       triggers, sequence, device_mem, search>>

\* the modem echoes the frame it sent
PlmAck ==
    /\ raised = "none"
    /\ plm_pending_ack
    /\ last_sent_msg' = [last_sent_msg EXCEPT !.plm_ack = TRUE]
    /\ plm_pending_ack' = FALSE
    /\ printed' = <<>>
    /\ UNCHANGED <<attributes, hop_array, last_rcvd_msg, recent_inc_msgs,
                   device_msg_queue, state_machine, aldb, wait_to_send,
                   plm_msg_queue, out_history, raised, now, n_rcvd,
                   triggers, sequence, device_mem, search>>

\* the modem acknowledges all_link_start: plm_success_callback runs
PlmLinkSuccess ==
    /\ raised = "none"
    /\ plm_msg_queue # <<>>
    /\ LET s == add_plm_to_dev_link_step2(
                    [Cur EXCEPT !.plm_msg_queue = Tail(@)])
       IN  QueueOk(s) /\ Commit(s)
    /\ UNCHANGED <<now, n_rcvd, device_mem, search>>

\* the modem refuses all_link_start: msg_failure_callback runs
PlmLinkFailure ==
    /\ raised = "none"
    /\ plm_msg_queue # <<>>
    /\ Commit(add_plm_to_dev_link_fail([Cur EXCEPT !.plm_msg_queue = Tail(@)]))
    /\ UNCHANGED <<now, n_rcvd, device_mem, search>>

\* the modem reports the link complete once the device is in linking mode
LinkComplete ==
    /\ raised = "none"
    /\ state_machine = "link plm->device"
    /\ last_sent_msg.name = "enter_link_mode"
    /\ last_sent_msg.device_ack
    /\ LET s == add_plm_to_dev_link_step4(Cur)
       IN  QueueOk(s) /\ Commit(s)
    /\ UNCHANGED <<now, n_rcvd, device_mem, search>>

\* the modem gives up on the enter_link_mode frame it sent for the link
\* sequence: msg_failure_callback runs
DeviceLinkFailure ==
    /\ raised = "none"
    /\ last_sent_msg.name = "enter_link_mode"
    /\ last_sent_msg.state_machine = "link plm->device"
    /\ ~last_sent_msg.device_ack
    /\ Commit(add_plm_to_dev_link_fail(Cur))
    /\ UNCHANGED <<now, n_rcvd, device_mem, search>>

\* a caller sends a command through the public send_command
SendCommand(Commands) ==
    \E command_name \in Commands :
        /\ raised = "none"
        /\ LET s == send_command(Cur, command_name, "", NoBytes)
           IN  QueueOk(s) /\ Commit(s)
        /\ UNCHANGED <<now, n_rcvd, device_mem, search>>

\* a caller sends a command through the generic send handler
GenericSend(Commands) ==
    \E command_name \in Commands :
        /\ raised = "none"
        /\ LET s == generic_send_command(Cur, command_name, "")
           IN  QueueOk(s) /\ Commit(s)
        /\ UNCHANGED <<now, n_rcvd, device_mem, search>>

\* a caller sends a command under a state label, with byte overrides
SendCommandWith(Commands, SendLabels, DevBytes) ==
    \E command_name \in Commands, state \in SendLabels, dev_bytes \in DevBytes :
        /\ raised = "none"
        /\ LET s == send_command(Cur, command_name, state, dev_bytes)
           IN  QueueOk(s) /\ Commit(s)
        /\ UNCHANGED <<now, n_rcvd, device_mem, search>>

\* the byte the device holds at (msb, lsb); memory never written reads zero
device_byte(mem, msb, lsb) ==
    LET key == <<msb, lsb - (lsb % 8)>>
    IN  IF key \in DOMAIN mem.table THEN mem.table[key][(lsb % 8) + 1] ELSE 0

\* the device's memory once `byte` is written where its address pointer is
device_poke(mem, byte) ==
    LET key == <<mem.msb, mem.lsb - (mem.lsb % 8)>>
        old == IF key \in DOMAIN mem.table THEN mem.table[key]
               ELSE [i \in 1..8 |-> 0]
    IN  [mem EXCEPT !.table = [k \in DOMAIN @ \cup {key} |->
                                  IF k = key
                                  THEN [old EXCEPT ![(mem.lsb % 8) + 1] = byte]
                                  ELSE @[k]],
                    !.delta = (@ + 1) % 256,
                    !.poked = @ \cup {<<mem.msb, mem.lsb>>}]

\* what an i1 device does with a frame and the cmd_1, cmd_2 of its ack:
\* set_address_msb and peek_one_byte move its address pointer, a peek
\* returns the byte there, a poke writes it, a status request returns the
\* ALDB delta in cmd_1
device_answer(mem, message) ==
    CASE message.name = "set_address_msb" ->
            [mem |-> [mem EXCEPT !.msb = message.cmd_2],
             cmd_1 |-> message.cmd_1, cmd_2 |-> message.cmd_2]
      [] message.name = "peek_one_byte" ->
            [mem |-> [mem EXCEPT !.lsb = message.cmd_2],
             cmd_1 |-> message.cmd_1,
             cmd_2 |-> device_byte(mem, mem.msb, message.cmd_2)]
      [] message.name = "poke_one_byte" ->
            [mem |-> device_poke(mem, message.cmd_2),
             cmd_1 |-> message.cmd_1, cmd_2 |-> message.cmd_2]
      [] message.name = "light_status_request" ->
            [mem |-> mem, cmd_1 |-> mem.delta, cmd_2 |-> 0]
      [] OTHER ->
            [mem |-> mem, cmd_1 |-> message.cmd_1, cmd_2 |-> message.cmd_2]

\* the device acks the frame last sent, once the modem has echoed it; the
\* ack arrives with no hops left
DeviceOwesAnswer(max_rcvd) ==
    /\ raised = "none"
    /\ n_rcvd < max_rcvd
    /\ last_sent_msg # NoMsg
    /\ last_sent_msg.plm_ack
    /\ ~last_sent_msg.device_ack

DeviceAnswers(max_rcvd) ==
    /\ DeviceOwesAnswer(max_rcvd)
    /\ \E answer \in {device_answer(device_mem, last_sent_msg)} :
           /\ \E s \in {msg_rcvd(Cur, StdAck(answer.cmd_1, answer.cmd_2, 0))} :
                  QueueOk(s) /\ Commit(s)
           /\ device_mem' = answer.mem
    /\ n_rcvd' = n_rcvd + 1
    /\ now' = now
    /\ UNCHANGED search

\* a caller starts the scan of the device's ALDB through the send handler
ScanRequested ==
    /\ raised = "none"
    /\ sequence.driver = "sequences"
    /\ ~sequence.scan_started
    /\ ~sequence.write_started

QueryALDB ==
    /\ ScanRequested
    /\ \E s \in {generic_query_aldb(
                      [Cur EXCEPT !.sequence.scan_started = TRUE])} :
           QueueOk(s) /\ Commit(s)
    /\ UNCHANGED <<now, n_rcvd, device_mem, search>>

\* no frame is waiting and the frame last sent has been answered
Idle ==
    /\ \A l \in Labels : device_msg_queue[l] = <<>>
    /\ last_sent_msg = NoMsg \/ last_sent_msg.device_ack

\* a caller writes a link record to an i1 device: link_sequence.start()
StartWrite(Addresses, Records) ==
    \E address \in Addresses, record \in Records :
        /\ raised = "none"
        /\ sequence.driver = "sequences"
        /\ attributes.engine_version = 0
        /\ ~sequence.write_started
        /\ sequence.scan_started => sequence.scan_success = 1
        /\ Idle
        /\ \E s \in {WriteALDBRecordi1_start(Cur, address, record,
                                               record[1] >= 128)} :
               QueueOk(s) /\ Commit(s)
        /\ UNCHANGED <<now, n_rcvd, device_mem, search>>

\* one pass of the loop `for search_item in search_list`: the schema level
\* reached is narrowed by the next attribute; a miss ends the walk with no
\* handler, the last level ends it with the handler selected
NarrowStep ==
    /\ ~search.done
    /\ LET found == _recursive_search_cmd(search.command,
                                          Head(search.search_list))
           last == Len(search.search_list) = 1
       IN  search' =
               IF found = <<>>
               THEN [search EXCEPT !.done = TRUE]
               ELSE [search EXCEPT
                        !.command = IF last THEN <<>> ELSE found[1],
                        !.search_list = Tail(@),
                        !.selected = IF last THEN found ELSE <<>>,
                        !.done = last]
    /\ UNCHANGED <<attributes, hop_array, last_sent_msg, last_rcvd_msg,
                   recent_inc_msgs, device_msg_queue, state_machine, aldb,
                   wait_to_send, plm_msg_queue, plm_pending_ack, out_history,
                   printed, raised, now, n_rcvd, triggers, sequence,
                   device_mem>>

\* the SetALDBDelta sequence: a status request in the set_aldb_delta state
SetALDBDelta ==
    /\ raised = "none"
    /\ state_machine # "set_aldb_delta"
    /\ LET s == send_command(Cur, "light_status_request", "set_aldb_delta",
                             NoBytes)
       IN  QueueOk(s) /\ Commit(s)
    /\ UNCHANGED <<now, n_rcvd, device_mem, search>>

\* time passes, while a send wait or a dedup entry has yet to run out
Tick(Steps, max_time) ==
    \E d \in Steps :
        /\ now + d <= max_time
        /\ \/ now < wait_to_send
           \/ \E k \in DOMAIN recent_inc_msgs : recent_inc_msgs[k] >= now
        /\ now' = now + d
        /\ UNCHANGED <<attributes, hop_array, last_sent_msg, last_rcvd_msg,
                       recent_inc_msgs, device_msg_queue, state_machine, aldb,
                       wait_to_send, plm_msg_queue, plm_pending_ack,
                       out_history, printed, raised, n_rcvd,
                       triggers, sequence, device_mem, search>>

---------------------------------------------------------------------------
(* Inputs *)

\* the identity broadcast: dev_cat 0x01, sub_cat 0x20, firmware 0x3A
IdBroadcast ==
    Frame("broadcast", "standard", 1, 0, 3, 2, <<1, 32, 58>>, <<>>)

KnownAttrs(engine_version, aldb_delta) ==
    Attrs(engine_version, 1, 32, 58, aldb_delta)

---------------------------------------------------------------------------
(* Spec: initialization and the handling of status acks *)

Configs == {FreshAttrs, Attrs(1, 1, NONE, NONE, NONE), KnownAttrs(1, 5)}

Frames == {StdAck(13, 1, 2), IdBroadcast, StdAck(5, 255, 2), StdAck(6, 0, 2)}

Init == InitFrom(Configs, {<<>>})

Next ==
    \/ Rcvd(Frames, MaxRcvd)
    \/ Dispatch
    \/ PlmAck
    \/ SetALDBDelta
    \/ Tick({1000}, MaxTime)

Spec == Init /\ [][Next]_vars

---------------------------------------------------------------------------
(* SpecHops: the hop history under every kind of direct frame *)

\* a persisted hop history of nine samples
PersistedHops == <<0, 1, 2, 3, 0, 1, 2, 3, 0>>

HopFrames ==
    {StdAck(13, 255, 1), StdAck(25, 5, 2), StdNack(25, 0, 3),
     Frame("direct", "standard", 17, 0, 3, 0, PlmAddr, <<>>), IdBroadcast}

InitHops == InitFrom({FreshAttrs, KnownAttrs(1, 5)}, {<<>>, PersistedHops})

NextHops ==
    \/ Rcvd(HopFrames, MaxRcvdHops)
    \/ Dispatch
    \/ PlmAck
    \/ Tick({500}, MaxTime)

SpecHops == InitHops /\ [][NextHops]_vars

---------------------------------------------------------------------------
(* SpecDedup: frames delivered again inside and outside their dedup window *)

DedupFrames ==
    {StdAck(25, 6, 2), StdAck(25, 6, 1), StdNack(25, 253, 2), StdAck(13, 1, 1),
     IdBroadcast}

InitDedup == InitFrom({FreshAttrs, KnownAttrs(2, 5)}, {<<>>})

NextDedup ==
    \/ Rcvd(DedupFrames, MaxRcvdDedup)
    \/ Dispatch
    \/ PlmAck
    \/ Tick({100}, MaxTime)

SpecDedup == InitDedup /\ [][NextDedup]_vars

---------------------------------------------------------------------------
(* SpecFresh: a device with no persisted attribute *)

FreshFrames == {StdAck(13, 1, 2), StdAck(16, 0, 2), IdBroadcast, StdAck(5, 255, 2)}

InitFresh == InitFrom({FreshAttrs}, {<<>>})

NextFresh ==
    \/ Rcvd(FreshFrames, MaxRcvdFresh)
    \/ Dispatch
    \/ PlmAck
    \/ Tick({1000}, MaxTimeFresh)

SpecFresh == InitFresh /\ [][NextFresh]_vars

---------------------------------------------------------------------------
(* SpecNack: acks and nacks, stale, unmatched and valid, on a device whose  *)
(* engine_version is 0x02 or unknown                                        *)

NackReasons == {255, 254, 253, 252, 251, 0}

NackFrames ==
    {StdNack(25, cmd_2, 2) : cmd_2 \in NackReasons}
    \cup {StdNack(13, 255, 2), StdNack(13, 253, 2), StdNack(13, 0, 2),
          StdAck(25, 5, 2)}

InitNack == InitFrom({FreshAttrs, KnownAttrs(2, 5)}, {<<>>})

NextNack ==
    \/ Rcvd(NackFrames, MaxRcvdNack)
    \/ Dispatch
    \/ PlmAck
    \/ Tick({1000}, MaxTime)

SpecNack == InitNack /\ [][NextNack]_vars

---------------------------------------------------------------------------
(* SpecLegacy: nacks on a device whose engine_version is 0x00 or 0x01, to   *)
(* its status request and to an enter_link_mode a caller sent               *)

LegacyFrames ==
    {StdNack(9, 255, 2), StdNack(9, 0, 2), StdNack(25, 255, 2),
     StdNack(25, 0, 2)}

InitLegacy == InitFrom({KnownAttrs(0, 5), KnownAttrs(1, 5)}, {<<>>})

NextLegacy ==
    \/ Rcvd(LegacyFrames, MaxRcvdLegacy)
    \/ Dispatch
    \/ PlmAck
    \/ SendCommand({"enter_link_mode"})
    \/ Tick({1000}, MaxTime)

SpecLegacy == InitLegacy /\ [][NextLegacy]_vars

---------------------------------------------------------------------------
(* SpecWait: the writers of the modem's wait_to_send *)

WaitFrames ==
    {StdNack(25, 0, 2), StdNack(25, 253, 0), StdAck(25, 5, 3), StdAck(25, 5, 0)}

InitWait == InitFrom({KnownAttrs(1, 5), KnownAttrs(2, 5)}, {<<>>})

NextWait ==
    \/ Rcvd(WaitFrames, MaxRcvdWait)
    \/ Dispatch
    \/ PlmAck
    \/ Tick({100, 500}, MaxTime)

SpecWait == InitWait /\ [][NextWait]_vars

---------------------------------------------------------------------------
(* SpecCleanup: cleanup frames queued under two labels, and the cleanup     *)
(* acks of two groups                                                       *)

CleanupAck(cmd_1, cmd_2, hops_left) ==
    Frame("alllink_cleanup_ack", "standard", cmd_1, cmd_2, 3, hops_left,
          PlmAddr, <<>>)

CleanupFrames == {CleanupAck(17, 1, 2), CleanupAck(25, 0, 2)}

GroupBytes == {[n \in {"group"} |-> 1], [n \in {"group"} |-> 2]}

InitCleanup == InitFrom({KnownAttrs(1, 5)}, {<<>>})

NextCleanup ==
    \/ Rcvd(CleanupFrames, MaxRcvdCleanup)
    \/ Dispatch
    \/ PlmAck
    \/ SendCommandWith({"cleanup_on"}, {"", "set_aldb_delta"}, GroupBytes)
    \/ Tick({1000}, MaxTime)

SpecCleanup == InitCleanup /\ [][NextCleanup]_vars

---------------------------------------------------------------------------
(* SpecSearch: the narrowing walk DevCat, SubCat, Firmware, Cmd2 over       *)
(* schemas one level of which lists up to MaxBranches branches              *)

MaxBranches == 3

\* the branches a level is listed from: two tuples that overlap in 0 and two
\* catch-alls
BranchPool ==
    {Branch("tuple", {0}, "handler_a"), Branch("tuple", {0, 1}, "handler_b"),
     Branch("all", {}, "handler_c"), Branch("all", {}, "handler_a")}

LevelLists ==
    UNION {[1..n -> BranchPool] : n \in 0..MaxBranches}

\* `value` under n levels that are catch-alls
RECURSIVE Chain(_, _)
Chain(n, value) == IF n = 0 THEN value ELSE CatchAll(Chain(n - 1, value))

\* the schema whose level k (1 = DevCat .. 4 = Cmd2) is `branches` and whose
\* other levels are catch-alls
SchemaWith(k, branches) ==
    Chain(k - 1, [i \in 1..Len(branches) |->
                     [branches[i] EXCEPT !.value = Chain(4 - k, @)]])

\* the search list in which the attribute of level k is `value`
SearchListWith(k, value) == [i \in 1..4 |-> IF i = k THEN value ELSE 5]

InitSearch ==
    /\ InitDevice({KnownAttrs(1, 5)}, {<<>>})
    /\ device_mem = NoDevice
    /\ \E k \in 1..4, branches \in LevelLists, value \in {NONE, 0, 1} :
           search = [schema |-> SchemaWith(k, branches),
                     attrs |-> SearchListWith(k, value),
                     command |-> SchemaWith(k, branches),
                     search_list |-> SearchListWith(k, value),
                     selected |-> <<>>, done |-> FALSE]

NextSearch == NarrowStep

SpecSearch == InitSearch /\ [][NextSearch]_vars

---------------------------------------------------------------------------
(* SpecUnknown: callers ask for commands the schema does not have, or has   *)
(* for other device categories only                                         *)

\* 'bogus' is in no schema; 'on' is eliminated unless dev_cat is 0x01 or 0x02;
\* 'off' is a command of the generic handler only
RequestedNames == {"bogus", "on", "light_status_request"}
GenericRequestedNames == {"bogus", "off"}

InitUnknown ==
    InitFrom({FreshAttrs, KnownAttrs(1, 5)}, {<<>>})

NextUnknown ==
    \/ Rcvd({IdBroadcast}, MaxRcvdUnknown)
    \/ Dispatch
    \/ PlmAck
    \/ SendCommand(RequestedNames)
    \/ GenericSend(GenericRequestedNames)
    \/ Tick({1000}, MaxTime)

SpecUnknown == InitUnknown /\ [][NextUnknown]_vars

---------------------------------------------------------------------------
(* SpecScan: the i1 scan of a device's link table, driven by the ack        *)
(* handlers of Insteon_Device or by the ScanDeviceALDBi1 sequence            *)

\* a link record in use: a responder of group 1 to the device AA.BB.CC
LinkRecord == <<162, 1, 170, 187, 204, 255, 31, 0>>

\* link tables of n records in use from 0x0FF8 downward; the memory below
\* reads zero, which ends the table
TableOf(n) ==
    [key \in {<<15 - (i \div 32), 248 - 8 * (i % 32)>> : i \in 0..(n - 1)} |->
        LinkRecord]

\* record counts: none, one, and a page and a record more
TableSizes == {0, 1, 33}

\* a device whose table the scan has yet to read: its delta differs from the
\* delta persisted when the ack handlers drive the scan
InitScan ==
    /\ InitDriven({KnownAttrs(0, 5)}, {<<>>}, {"handlers", "sequences"})
    /\ \E n \in TableSizes :
           device_mem = [NoDevice EXCEPT
                            !.table = TableOf(n),
                            !.delta = IF sequence.driver = "handlers"
                                      THEN 6 ELSE 5]
    /\ search = NoSearch

NextScan ==
    \/ Dispatch
    \/ PlmAck
    \/ DeviceAnswers(MaxRcvdScan)
    \/ QueryALDB
    \/ Tick({5}, MaxTimeScan)

SpecScan == InitScan /\ [][NextScan]_vars

\* every frame queued is sent and echoed, every frame sent is answered, and
\* time passes
FairSpecScan ==
    /\ SpecScan
    /\ WF_vars(Dispatch)
    /\ WF_vars(PlmAck)
    /\ WF_vars(Tick({5}, MaxTimeScan))
    /\ ([]<>~DeviceOwesAnswer(MaxRcvdScan)
          \/ []<><<DeviceAnswers(MaxRcvdScan)>>_vars)
    /\ ([]<>~ScanRequested \/ []<><<QueryALDB>>_vars)

---------------------------------------------------------------------------
(* SpecWrite: a link record is written to an i1 device, byte by byte, with  *)
(* or without a scan before it                                              *)

\* the records written: the record the device holds, that record with its
\* group, with its data_3 and with its flags changed, another link, and a
\* link that is deleted, with the flags 0x22 and with the flags 0x00
WrittenRecords ==
    {LinkRecord,
     [LinkRecord EXCEPT ![2] = 2],
     [LinkRecord EXCEPT ![8] = 9],
     [LinkRecord EXCEPT ![1] = 226],
     <<226, 2, 17, 34, 51, 3, 0, 7>>,
     [LinkRecord EXCEPT ![1] = 34],
     [LinkRecord EXCEPT ![1] = 0]}

\* the address of a record is its msb and the lsb of its last byte
WrittenAddresses == {<<15, 255>>}

InitWrite ==
    /\ InitDriven({KnownAttrs(0, 5)}, {<<>>}, {"sequences"})
    /\ \E n \in {0, 1} :
           device_mem = [NoDevice EXCEPT !.table = TableOf(n), !.delta = 5]
    /\ search = NoSearch

NextWrite ==
    \/ Dispatch
    \/ PlmAck
    \/ DeviceAnswers(MaxRcvdWrite)
    \/ QueryALDB
    \/ StartWrite(WrittenAddresses, WrittenRecords)
    \/ Tick({5}, MaxTimeWrite)

SpecWrite == InitWrite /\ [][NextWrite]_vars

---------------------------------------------------------------------------
(* SpecExt: an i2 device answers read_aldb with extended ALDB responses     *)

\* the extended response for the record at (msb, lsb): usr_3 and usr_4 hold
\* the address, usr_6..usr_13 the body
ExtAldbResponse(msb, lsb, body) ==
    Frame("direct", "extended", 47, 0, 3, 2, PlmAddr,
          <<0, 1, msb, lsb, 8>> \o body \o <<0>>)

ExtFrames ==
    {ExtAldbResponse(15, 248, LinkRecord),
     ExtAldbResponse(15, 255, [LinkRecord EXCEPT ![2] = 2]),
     ExtAldbResponse(15, 240, [LinkRecord EXCEPT ![1] = 226])}

\* the addresses asked for: the wildcard and the record at 0x0FF8
ReadAddresses ==
    {[n \in {"msb", "lsb"} |-> 0],
     [n \in {"msb", "lsb"} |-> IF n = "msb" THEN 15 ELSE 248]}

InitExt == InitFrom({KnownAttrs(2, 5)}, {<<>>})

NextExt ==
    \/ Rcvd(ExtFrames, MaxRcvdExt)
    \/ Dispatch
    \/ PlmAck
    \/ SendCommandWith({"read_aldb"}, {""}, ReadAddresses)
    \/ Tick({1000}, MaxTime)

SpecExt == InitExt /\ [][NextExt]_vars

---------------------------------------------------------------------------
(* SpecAldb: every way a record gets into the ALDB: the scan of an i1       *)
(* device by the ack handlers or by the sequences, the write of a record to *)
(* it, and the extended responses of an i2 device                           *)

InitAldb ==
    \/ /\ InitDriven({KnownAttrs(0, 5)}, {<<>>}, {"handlers", "sequences"})
       /\ \E n \in {0, 1} :
              device_mem = [NoDevice EXCEPT
                               !.table = TableOf(n),
                               !.delta = IF sequence.driver = "handlers"
                                         THEN 6 ELSE 5]
       /\ search = NoSearch
    \/ InitExt

\* an i1 device is scanned and written to, an i2 device is read
NextAldb ==
    \/ attributes.engine_version = 0 /\ NextWrite
    \/ attributes.engine_version = 2 /\ NextExt

SpecAldb == InitAldb /\ [][NextAldb]_vars

---------------------------------------------------------------------------
(* SpecVersion: a device of unknown engine answers get_engine_version       *)

\* acks and nacks to get_engine_version: i1, i2, i2cs, a byte that names no
\* engine, and the nack reasons 0xFF and 0xFB
VersionFrames ==
    {StdAck(13, 0, 2), StdAck(13, 1, 2), StdAck(13, 2, 2), StdAck(13, 3, 2),
     StdAck(13, 255, 2), StdNack(13, 255, 2), StdNack(13, 251, 2)}

InitVersion == InitFrom({FreshAttrs, KnownAttrs(NONE, 5)}, {<<>>})

NextVersion ==
    \/ Rcvd(VersionFrames, MaxRcvdVersion)
    \/ Dispatch
    \/ PlmAck
    \/ Tick({1000}, MaxTime)

SpecVersion == InitVersion /\ [][NextVersion]_vars

---------------------------------------------------------------------------
(* Vocabulary of the properties.  In a step of msg_rcvd the frame handled   *)
(* is last_rcvd_msg', and the unprimed variables are the state at arrival.  *)

IsRcvdStep == n_rcvd' = n_rcvd + 1

\* at arrival the frame's search key is cached and has yet to expire
IsDuplicateStep ==
    LET search_key == _get_search_key(last_rcvd_msg')
    IN  /\ search_key \in DOMAIN recent_inc_msgs
        /\ ~(recent_inc_msgs[search_key] < now)

\* at arrival the modem has echoed last_sent_msg and the device has yet to
\* answer it
ValidAtArrival ==
    /\ last_sent_msg # NoMsg
    /\ last_sent_msg.plm_ack
    /\ ~last_sent_msg.device_ack

\* the last ten of `samples`, in their order
MostRecent(samples) ==
    IF Len(samples) > 10
    THEN SubSeq(samples, Len(samples) - 9, Len(samples))
    ELSE samples

\* the step put one frame named `name` at the tail of the default queue
InitQueued(name) ==
    LET q == device_msg_queue[""]
        q2 == device_msg_queue'[""]
    IN  /\ Len(q2) = Len(q) + 1
        /\ SubSeq(q2, 1, Len(q)) = q
        /\ q2[Len(q2)].name = name
        /\ ~q2[Len(q2)].is_last_sent

IdentityKnown(attrs) ==
    attrs.dev_cat # NONE /\ attrs.sub_cat # NONE /\ attrs.firmware # NONE

\* the step cleared the ALDB records and queued the first frame of a scan
RescanStarted ==
    LET q == device_msg_queue[""]
        q2 == device_msg_queue'[""]
    IN  /\ Len(q2) = Len(q) + 1
        /\ SubSeq(q2, 1, Len(q)) = q
        /\ q2[Len(q2)].name \in {"read_aldb", "set_address_msb"}
        /\ DOMAIN aldb' = {}

NoRescan ==
    /\ device_msg_queue'[""] = device_msg_queue[""]
    /\ aldb' = aldb

\* the step put last_sent_msg back at the head of its label's queue, with
\* plm_ack reset
Resent ==
    LET label == last_sent_msg.state_machine
        q == device_msg_queue[label]
        q2 == device_msg_queue'[label]
    IN  /\ Len(q2) = Len(q) + 1
        /\ Tail(q2) = q
        /\ Head(q2).name = last_sent_msg.name
        /\ Head(q2).cmd_1 = last_sent_msg.cmd_1
        /\ Head(q2).cmd_2 = last_sent_msg.cmd_2
        /\ ~Head(q2).plm_ack
        /\ \A l \in Labels \ {label} :
               device_msg_queue'[l] = device_msg_queue[l]

\* the step queued all_link_start on the modem
LinkStarted ==
    /\ Len(plm_msg_queue') = Len(plm_msg_queue) + 1
    /\ SubSeq(plm_msg_queue', 1, Len(plm_msg_queue)) = plm_msg_queue
    /\ plm_msg_queue'[Len(plm_msg_queue')].name = "all_link_start"
    /\ plm_msg_queue'[Len(plm_msg_queue')].state_machine = "link plm->device"

\* a direct_nack that is no duplicate, is valid at arrival and has the cmd_1
\* of the command last sent
MatchingNackStep ==
    /\ IsRcvdStep
    /\ ~IsDuplicateStep
    /\ last_rcvd_msg'.message_type = "direct_nack"
    /\ ValidAtArrival
    /\ last_sent_msg.cmd_1 = last_rcvd_msg'.cmd_1

\* a direct_ack that is no duplicate and is valid at arrival, while
\* light_status_request is the command last sent
StatusAckStep ==
    /\ IsRcvdStep
    /\ ~IsDuplicateStep
    /\ last_rcvd_msg'.message_type = "direct_ack"
    /\ ValidAtArrival
    /\ last_sent_msg.name = "light_status_request"

---------------------------------------------------------------------------
(* Properties *)

\* C1: hop_array never holds more than 10 samples.  A direct, direct_ack or
\* direct_nack frame that is not a duplicate appends its hops-used sample
\* (twice when _set_engine_version hands the ack on to the nack handler),
\* stale and unmatched ones included, and what is kept is the most recent
\* ten samples in arrival order; no other step touches hop_array.
HopStep ==
    LET hops_used == last_rcvd_msg'.max_hops - last_rcvd_msg'.hops_left
    IN  /\ Len(hop_array') <= 10
        /\ IF /\ IsRcvdStep
              /\ ~IsDuplicateStep
              /\ last_rcvd_msg'.message_type \in
                     {"direct", "direct_ack", "direct_nack"}
           THEN hop_array' \in
                    {MostRecent(hop_array \o <<hops_used>>),
                     MostRecent(hop_array \o <<hops_used, hops_used>>)}
           ELSE hop_array' = hop_array
C1_HopArrayMostRecentTen == [][HopStep]_vars

\* C1 witness: the nine persisted samples have overflowed and the two oldest
\* are gone
C1_Witness ==
    /\ Len(hop_array) = 10
    /\ SubSeq(hop_array, 1, 7) = SubSeq(PersistedHops, 3, 9)
    /\ n_rcvd >= 2

\* C2: a frame with hops_left >= 1 delivered again while its dedup entry is
\* live changes none of the attributes, hop_array, last_sent_msg and its ack
\* flags, the outgoing queues and the ALDB records; it is skipped before any
\* handler runs.
DuplicateStep ==
    (IsRcvdStep /\ IsDuplicateStep /\ last_rcvd_msg'.hops_left >= 1)
    => /\ attributes' = attributes
       /\ hop_array' = hop_array
       /\ last_sent_msg' = last_sent_msg
       /\ device_msg_queue' = device_msg_queue
       /\ plm_msg_queue' = plm_msg_queue
       /\ aldb' = aldb
       /\ printed' = <<"Skipped duplicate msg">>
C2_DuplicateChangesNothing == [][DuplicateStep]_vars

\* C2 witness: a second delivery was skipped after the first was handled
C2_Witness ==
    /\ printed = <<"Skipped duplicate msg">>
    /\ last_rcvd_msg.hops_left >= 1
    /\ hop_array # <<>>
    /\ n_rcvd >= 2

\* C3: a direct_ack or direct_nack that arrives while last_sent_msg.plm_ack is
\* not true or last_sent_msg.device_ack is not false changes neither
\* last_sent_msg (device_ack, plm_ack) nor engine_version, status, aldb_delta,
\* the ALDB records, the outgoing queues, the modem's queue or the state the
\* device is in.
StaleResponseStep ==
    (/\ IsRcvdStep
     /\ last_rcvd_msg'.message_type \in {"direct_ack", "direct_nack"}
     /\ ~ValidAtArrival)
    => /\ last_sent_msg' = last_sent_msg
       /\ attributes'.engine_version = attributes.engine_version
       /\ attributes'.status = attributes.status
       /\ attributes'.aldb_delta = attributes.aldb_delta
       /\ aldb' = aldb
       /\ device_msg_queue' = device_msg_queue
       /\ plm_msg_queue' = plm_msg_queue
       /\ state_machine' = state_machine
C3_StaleResponseDropped == [][StaleResponseStep]_vars

\* C3 witness: a nack arrived before the modem had echoed the command
C3_Witness ==
    /\ printed = <<"ignoring a device response received before PLM ack">>
    /\ last_rcvd_msg.message_type = "direct_nack"
    /\ last_rcvd_msg.cmd_2 = 253
    /\ ~last_sent_msg.plm_ack

\* C4: a valid direct_ack while light_status_request is the command last sent
\* always stores cmd_2 as status and sets device_ack; in the set_aldb_delta
\* state it stores cmd_1 as aldb_delta, leaves the state and starts no rescan;
\* outside that state it leaves aldb_delta alone and starts a rescan exactly
\* when the stored aldb_delta differs from cmd_1.
StatusAckHandled ==
    StatusAckStep
    => /\ attributes'.status = last_rcvd_msg'.cmd_2
       /\ last_sent_msg'.device_ack
       /\ IF state_machine = "set_aldb_delta"
          THEN /\ attributes'.aldb_delta = last_rcvd_msg'.cmd_1
               /\ state_machine' = ""
               /\ device_msg_queue'["set_aldb_delta"] = <<>>
               /\ NoRescan
          ELSE /\ attributes'.aldb_delta = attributes.aldb_delta
               /\ state_machine' = state_machine
               /\ IF attributes.aldb_delta # last_rcvd_msg'.cmd_1
                  THEN RescanStarted
                  ELSE NoRescan
C4_StatusAck == [][StatusAckHandled]_vars

\* C4 witness: a device that stored delta 5 has adopted delta 6 from a status
\* ack in the set_aldb_delta state
C4_Witness ==
    /\ printed = <<"was status response">>
    /\ attributes.aldb_delta = 6
    /\ attributes.status = 0
    /\ last_sent_msg.state_machine = "set_aldb_delta"
    /\ last_sent_msg.device_ack

\* C5: construction queues exactly one frame: get_engine_version if
\* engine_version is unknown, else id_request if one of dev_cat, sub_cat and
\* firmware is unknown, else light_status_request.  After construction the
\* init steps queue get_engine_version only while engine_version is unknown,
\* id_request only once engine_version is known and while one of the identity
\* attributes is unknown, and light_status_request only once all three
\* identity attributes are known.
ConstructionQueue ==
    /\ Len(device_msg_queue[""]) = 1
    /\ \A l \in Labels \ {""} : device_msg_queue[l] = <<>>
    /\ device_msg_queue[""][1].name =
           IF attributes.engine_version = NONE THEN "get_engine_version"
           ELSE IF ~IdentityKnown(attributes) THEN "id_request"
           ELSE "light_status_request"
InitStepsGated ==
    /\ InitQueued("get_engine_version") => attributes.engine_version = NONE
    /\ InitQueued("id_request") =>
           /\ attributes'.engine_version # NONE
           /\ ~IdentityKnown(attributes')
    /\ InitQueued("light_status_request") => IdentityKnown(attributes')
C5_InitGatedAndOrdered == ConstructionQueue /\ [][InitStepsGated]_vars

\* C5 witness: a fresh device has sent get_engine_version, then id_request, and
\* the identity broadcast has just queued light_status_request
C5_Witness ==
    /\ printed = <<"rcvd, broadcast updated devcat, subcat, and firmware">>
    /\ out_history["get_engine_version"] # NoMsg
    /\ last_sent_msg.name = "id_request"
    /\ device_msg_queue[""] # <<>>
    /\ device_msg_queue[""][Len(device_msg_queue[""])].name
           = "light_status_request"

\* a fresh device has gone through get_engine_version (ack cmd_2 = 0x01),
\* id_request and the identity broadcast, and this step handles the valid ack
\* (cmd_1 = 0x05, cmd_2 = 0xFF) to the light_status_request of the init steps
InitStatusAckStep ==
    /\ StatusAckStep
    /\ last_sent_msg.state_machine = ""
    /\ last_rcvd_msg'.cmd_1 = 5
    /\ last_rcvd_msg'.cmd_2 = 255
    /\ attributes = [KnownAttrs(1, NONE) EXCEPT !.status = attributes.status]
    /\ out_history["get_engine_version"] # NoMsg
    /\ out_history["id_request"] # NoMsg

\* C6 (amended): the ack (cmd_1 = 0x05, cmd_2 = 0xFF) to the
\* light_status_request of the init steps of a fresh device leaves status =
\* 0xFF, leaves aldb_delta absent, and starts a full ALDB rescan.
FreshStatusAckRescans ==
    InitStatusAckStep
    => /\ attributes'.status = 255
       /\ attributes'.aldb_delta = NONE
       /\ RescanStarted
       /\ printed' = <<"was status response", "aldb has changed, rescanning">>
C6_FreshStatusAckRescans == [][FreshStatusAckRescans]_vars

\* C6 witness: the fresh device has handled that ack after the engine version
\* ack, the id_request ack and the broadcast
C6_Witness ==
    /\ Len(printed) >= 1
    /\ printed[1] = "was status response"
    /\ last_rcvd_msg.cmd_1 = 5
    /\ last_rcvd_msg.cmd_2 = 255
    /\ last_sent_msg.name = "light_status_request"
    /\ last_sent_msg.state_machine = ""
    /\ out_history["id_request"] # NoMsg
    /\ n_rcvd = 4
    /\ attributes.aldb_delta = NONE
    /\ attributes.engine_version = 1
    /\ attributes.dev_cat = 1
    /\ attributes.status = 255

\* C6 as stated: that ack leaves status = 0xFF and aldb_delta = 0x05
FreshStatusAckAdoptsDelta ==
    InitStatusAckStep
    => /\ attributes'.status = 255
       /\ attributes'.aldb_delta = 5
C6_Original == [][FreshStatusAckAdoptsDelta]_vars

\* C7 as stated: on a device whose engine_version is 0x01 or 0x00, a valid
\* matching direct_nack with cmd_2 = 0xFF sets engine_version to 0x02 and
\* device_ack, removes the state machine of the frame last sent and starts the
\* PLM-to-device link.
I1NackUpgrades ==
    (/\ MatchingNackStep
     /\ attributes.engine_version \in {0, 1}
     /\ last_rcvd_msg'.cmd_2 = 255)
    => /\ attributes'.engine_version = 2
       /\ last_sent_msg'.device_ack
       /\ device_msg_queue'[last_sent_msg.state_machine] = <<>>
       /\ LinkStarted
C7_Original == [][I1NackUpgrades]_vars

\* C8: a valid matching direct_nack on a device whose engine_version is 0x02
\* or unknown: cmd_2 in {0xFE, 0xFC, 0xFB} sets engine_version 0x02 and
\* device_ack and queues nothing; 0xFD sets engine_version 0x02, sets
\* wait_to_send to one second, puts the last-sent frame back and leaves
\* device_ack false; 0xFF sets engine_version 0x02 and device_ack, removes the
\* state machine of the last-sent frame and starts the link; any other cmd_2
\* sets wait_to_send to one second and puts the last-sent frame back without
\* changing engine_version or device_ack.
NackReasonHandled ==
    (MatchingNackStep /\ attributes.engine_version \in {2, NONE})
    => LET cmd_2 == last_rcvd_msg'.cmd_2
       IN  CASE cmd_2 \in {254, 252, 251} ->
                    /\ attributes'.engine_version = 2
                    /\ last_sent_msg'.device_ack
                    /\ device_msg_queue' = device_msg_queue
                    /\ plm_msg_queue' = plm_msg_queue
             [] cmd_2 = 253 ->
                    /\ attributes'.engine_version = 2
                    /\ wait_to_send' = now + 1000
                    /\ Resent
                    /\ ~last_sent_msg'.device_ack
                    /\ plm_msg_queue' = plm_msg_queue
             [] cmd_2 = 255 ->
                    /\ attributes'.engine_version = 2
                    /\ last_sent_msg'.device_ack
                    /\ device_msg_queue'[last_sent_msg.state_machine] = <<>>
                    /\ state_machine' # last_sent_msg.state_machine
                           \/ state_machine' = ""
                    /\ LinkStarted
             [] OTHER ->
                    /\ wait_to_send' = now + 1000
                    /\ Resent
                    /\ attributes'.engine_version = attributes.engine_version
                    /\ ~last_sent_msg'.device_ack
                    /\ plm_msg_queue' = plm_msg_queue
C8_NackReasons == [][NackReasonHandled]_vars

\* C8 witness: a device of unknown engine version was nacked with 0xFD: it is
\* now an i2cs device and the command is back at the head of its queue
C8_Witness ==
    /\ printed = <<"nack received, checksum is incorrect, resending">>
    /\ attributes.engine_version = 2
    /\ last_sent_msg.name = "get_engine_version"
    /\ ~last_sent_msg.device_ack
    /\ device_msg_queue[""] # <<>>
    /\ Head(device_msg_queue[""]).name = "get_engine_version"
    /\ wait_to_send = now + 1000

\* C9 as stated: on a device whose engine_version is 0x00 or 0x01 a valid
\* matching direct_nack sets wait_to_send to one second and puts the last-sent
\* frame back at the head of its label's queue.
I1NackResends ==
    (MatchingNackStep /\ attributes.engine_version \in {0, 1})
    => /\ wait_to_send' = now + 1000
       /\ Resent
C9_Original == [][I1NackResends]_vars

\* C10: no write lowers the delay in force: after every step wait_to_send is
\* at least what it was, and after msg_rcvd it also covers the hop wait of the
\* frame handled.
WaitNeverLowered ==
    /\ wait_to_send' >= wait_to_send
    /\ IsRcvdStep =>
           wait_to_send' >= now + 50 * last_rcvd_msg'.hops_left + 5
CleanupAckHandled ==
    (/\ IsRcvdStep
     /\ ~IsDuplicateStep
     /\ last_rcvd_msg'.message_type = "alllink_cleanup_ack")
    => LET matches(m) == /\ m.cmd_1 = last_rcvd_msg'.cmd_1
                         /\ m.cmd_2 = last_rcvd_msg'.cmd_2
       IN  /\ \A l \in Labels :
                  device_msg_queue'[l] =
                      SelectSeq(device_msg_queue[l], LAMBDA m : ~matches(m))
           /\ last_sent_msg' =
                  IF last_sent_msg # NoMsg /\ matches(last_sent_msg)
                  THEN [last_sent_msg EXCEPT !.device_ack = TRUE]
                  ELSE last_sent_msg
C11_CleanupAck == [][CleanupAckHandled]_vars

\* C11 witness: the cleanup ack of group 1 was handled while cleanup_on of
\* group 1 was the frame last sent: it is device-acked, no frame of group 1 is
\* queued, and a cleanup_on of group 2 queued before the ack is still there
C11_Witness ==
    /\ last_rcvd_msg.message_type = "alllink_cleanup_ack"
    /\ last_rcvd_msg.cmd_2 = 1
    /\ printed = <<>>
    /\ n_rcvd >= 1
    /\ last_sent_msg.name = "cleanup_on"
    /\ last_sent_msg.cmd_2 = 1
    /\ last_sent_msg.device_ack
    /\ \A l \in Labels : \A i \in 1..Len(device_msg_queue[l]) :
           ~(device_msg_queue[l][i].cmd_1 = 17 /\ device_msg_queue[l][i].cmd_2 = 1)
    /\ \E i \in 1..Len(device_msg_queue["set_aldb_delta"]) :
           /\ device_msg_queue["set_aldb_delta"][i].name = "cleanup_on"
           /\ device_msg_queue["set_aldb_delta"][i].cmd_2 = 2

\* C12: a broadcast frame that is no duplicate stores its to_addr_hi,
\* to_addr_mid and to_addr_low bytes as dev_cat, sub_cat and firmware and
\* queues one light_status_request (init step 3); engine_version, the ack
\* flags of last_sent_msg and hop_array are left as they were.
BroadcastHandled ==
    (/\ IsRcvdStep
     /\ ~IsDuplicateStep
     /\ last_rcvd_msg'.message_type = "broadcast")
    => /\ attributes'.dev_cat = last_rcvd_msg'.to_addr[1]
       /\ attributes'.sub_cat = last_rcvd_msg'.to_addr[2]
       /\ attributes'.firmware = last_rcvd_msg'.to_addr[3]
       /\ InitQueued("light_status_request")
       /\ \A l \in Labels \ {""} : device_msg_queue'[l] = device_msg_queue[l]
       /\ attributes'.engine_version = attributes.engine_version
       /\ last_sent_msg'.plm_ack = last_sent_msg.plm_ack
       /\ last_sent_msg'.device_ack = last_sent_msg.device_ack
       /\ hop_array' = hop_array
C12_BroadcastSetsIdentity == [][BroadcastHandled]_vars

\* C12 witness: the identity broadcast reached a device whose engine_version
\* is still unknown and whose get_engine_version is unanswered: the identity
\* is stored and light_status_request is queued
C12_Witness ==
    /\ printed = <<"rcvd, broadcast updated devcat, subcat, and firmware">>
    /\ last_rcvd_msg.message_type = "broadcast"
    /\ attributes.dev_cat = 1
    /\ attributes.sub_cat = 32
    /\ attributes.firmware = 58
    /\ attributes.engine_version = NONE
    /\ last_sent_msg.name = "get_engine_version"
    /\ ~last_sent_msg.device_ack
    /\ hop_array = <<>>
    /\ Len(device_msg_queue[""]) = 1
    /\ device_msg_queue[""][1].name = "light_status_request"

\* the branches of `level` a search for `value` chooses among: the tuple
\* branches that contain it or, when there is none, the catch-alls
Candidates(level, value) ==
    LET tuples == {i \in 1..Len(level) :
                      level[i].kind = "tuple" /\ value \in level[i].vals}
        alls == {i \in 1..Len(level) : level[i].kind = "all"}
    IN  IF tuples # {} THEN tuples ELSE alls

LastOf(S) == CHOOSE i \in S : \A j \in S : j <= i

\* `level` with its branches listed in every order
Reorderings(level) ==
    {[i \in 1..Len(level) |-> level[p[i]]] : p \in Permutations(1..Len(level))}

\* the step narrowed the level to `chosen` (<<>>: no handler)
NarrowedTo(chosen) ==
    IF chosen = <<>> THEN search'.done /\ search'.selected = <<>>
    ELSE IF Len(search.search_list) = 1
    THEN search'.done /\ search'.selected = chosen
    ELSE ~search'.done /\ search'.command = chosen[1]

\* C13 (amended): at each of the levels DevCat, SubCat, Firmware, Cmd2 the
\* narrowing step returns the value of a tuple branch that contains the
\* attribute when there is one, otherwise of a branch marked 'all', otherwise
\* no handler; of several such branches the one listed last is returned, so
\* the selection is the same in every order of the branches when at most one
\* tuple branch contains the attribute and at most one branch is marked 'all'.
NarrowedAsListed ==
    ~search.done
    => LET level == search.command
           value == Head(search.search_list)
           cands == Candidates(level, value)
       IN  /\ NarrowedTo(IF cands = {} THEN <<>>
                         ELSE <<level[LastOf(cands)].value>>)
           /\ Cardinality(cands) <= 1 =>
                  \A r \in Reorderings(level) :
                      NarrowedTo(_recursive_search_cmd(r, value))
C13_NarrowingLastListedWins == [][NarrowedAsListed]_vars

\* C13 witness: the Cmd2 level lists a tuple branch that contains the
\* attribute before a catch-all, and the walk has selected the tuple's handler
C13_Witness ==
    /\ search.done
    /\ search.schema =
           SchemaWith(4, <<Branch("tuple", {0, 1}, "handler_b"),
                           Branch("all", {}, "handler_c")>>)
    /\ search.attrs[4] = 1
    /\ search.selected = <<"handler_b">>

\* C13 as stated: the handler selected is the same in whatever order the
\* branches of the level are listed
NarrowedInEveryOrder ==
    ~search.done
    => \A r \in Reorderings(search.command) :
           NarrowedTo(_recursive_search_cmd(r, Head(search.search_list)))
C13_Original == [][NarrowedInEveryOrder]_vars

\* C14: create_message gives the caller no frame for a command name that is
\* not in the schema or that the dev_cat, sub_cat, firmware narrowing
\* eliminates, and send_command with such a name adds nothing to any outgoing
\* queue and leaves last_sent_msg and the attributes as they were; so does
\* the generic handler for a name that is not in its schema.
NothingSent ==
    /\ device_msg_queue' = device_msg_queue
    /\ plm_msg_queue' = plm_msg_queue
    /\ last_sent_msg' = last_sent_msg
    /\ attributes' = attributes
    /\ hop_array' = hop_array
NoFrameProduced ==
    /\ \A command_name \in RequestedNames :
           (/\ SendCommand({command_name})
            /\ \/ command_name \notin CommandNames
               \/ /\ command_name \in {"on", "cleanup_on"}
                  /\ attributes.dev_cat \notin LoadDevCats)
           => /\ create_message(Cur, command_name) = <<>>
              /\ NothingSent
    /\ \A command_name \in GenericRequestedNames :
           (/\ GenericSend({command_name})
            /\ command_name \notin DOMAIN msg_schema)
           => /\ generic_create_message(command_name) = <<>>
              /\ NothingSent
C14_UnknownCommandSendsNothing == [][NoFrameProduced]_vars

\* C14 witness: 'on' was asked of a device whose dev_cat is unknown; the
\* narrowing eliminated it and only the init frame is queued
C14_Witness ==
    /\ printed = <<"not available for this device">>
    /\ attributes.dev_cat = NONE
    /\ last_sent_msg = NoMsg
    /\ Len(device_msg_queue[""]) = 1
    /\ device_msg_queue[""][1].name = "get_engine_version"

\* the frames of the scan waiting in the outgoing queues
ScanFramesQueued(queue) ==
    {<<l, i>> : l \in Labels, i \in 1..MaxQueue} \cap
    {<<l, i>> \in Labels \X (1..MaxQueue) :
        /\ i <= Len(queue[l])
        /\ queue[l][i].name \in {"set_address_msb", "peek_one_byte"}}

\* C16: an i1 scan by the ScanDeviceALDBi1 sequence of a device whose link
\* table ends and that acks every request terminates: once started, the
\* scan invokes its success callback; the callback is invoked at most once
\* and the failure callback never; and once it has been invoked no
\* set_address_msb or peek_one_byte frame is queued or enqueued and no
\* trigger of the scan is left.
ScanSucceeds == sequence.scan_started ~> sequence.scan_success = 1
ScanSucceedsOnce ==
    [](sequence.scan_success <= 1 /\ sequence.scan_failure = 0)
ScanQuietAfterSuccess ==
    [](sequence.scan_success = 1
         => /\ ScanFramesQueued(device_msg_queue) = {}
            /\ \A i \in 1..Len(triggers) : triggers[i].name # "query_aldb")
ScanEnqueuesNothingAfterSuccess ==
    [][sequence.scan_success = 1
         => ScanFramesQueued(device_msg_queue') = {}]_vars
IsPeekAckStep ==
    /\ IsRcvdStep
    /\ ValidAtArrival
    /\ last_sent_msg.name = "peek_one_byte"
    /\ last_sent_msg'.device_ack

\* the step puts exactly one frame on an outgoing queue: `name` with cmd_2
Enqueues(name, cmd_2) ==
    \E l \in Labels :
        /\ Len(device_msg_queue'[l]) = Len(device_msg_queue[l]) + 1
        /\ SubSeq(device_msg_queue'[l], 1, Len(device_msg_queue[l]))
               = device_msg_queue[l]
        /\ device_msg_queue'[l][Len(device_msg_queue'[l])].name = name
        /\ device_msg_queue'[l][Len(device_msg_queue'[l])].cmd_2 = cmd_2
        /\ \A k \in Labels \ {l} : device_msg_queue'[k] = device_msg_queue[k]

\* C17: in an i1 scan the is-last and empty decisions for a record are taken
\* only after all eight of its bytes have been peeked: the ack of a peek at
\* one of the first seven bytes is followed by the peek of the next byte;
\* and when the eighth byte completes a record that is all zero (the device
\* answered the peeks at 0xF8..0xFF with zero), the record is taken as empty
\* and the next peek is at the first byte of the record below, (0x0F, 0xF0).
WholeRecordBeforeDecision ==
    IsPeekAckStep /\ last_sent_msg.cmd_2 % 8 # 7
        => Enqueues("peek_one_byte", last_sent_msg.cmd_2 + 1)
EmptyRecordSkipped ==
    (/\ IsPeekAckStep
     /\ last_sent_msg.cmd_2 % 8 = 7
     /\ aldb'[_get_aldb_key(15, last_sent_msg.cmd_2)] = EmptyRecord)
        => Enqueues("peek_one_byte", last_sent_msg.cmd_2 - 15)
C17_Original == [][WholeRecordBeforeDecision /\ EmptyRecordSkipped]_vars

\* the positions 0..7 of the record being written whose byte differs from
\* the record cached when the write started: all eight if none was cached
DifferingPositions ==
    {position \in 0..7 :
        \/ sequence.write_cached = <<>>
        \/ sequence.write_cached[position + 1]
              # sequence.write_record[position + 1]}

\* the address of byte `position` of the record being written
WrittenByteAddress(position) ==
    <<sequence.write_address[1], sequence.write_address[2] - 7 + position>>

\* C18: an i1 write of a record in use writes every position 0..7 whose
\* byte differs from the cached record, all eight when none is cached: a
\* poke goes out only once the peek at its offset has been acked and it
\* carries the byte of the record for that offset, and the write completes
\* only after every differing position has been poked and the poke acked.
PokeFollowsPeek ==
    \A byte \in 0..255 :
        Enqueues("poke_one_byte", byte)
            => /\ IsPeekAckStep
               /\ byte = sequence.write_record[(last_sent_msg.cmd_2 % 8) + 1]
CompleteAfterEveryPoke ==
    (sequence.write_in_use /\ sequence'.write_complete = 1)
        => \A position \in DifferingPositions :
               WrittenByteAddress(position) \in device_mem'.poked
C18_Original == [][PokeFollowsPeek /\ CompleteAfterEveryPoke]_vars

\* an extended ALDB response reaches its handler: it is no duplicate and a
\* read_aldb has been sent
IsExtAldbStep ==
    /\ IsRcvdStep
    /\ ~IsDuplicateStep
    /\ last_rcvd_msg'.message_type = "direct"
    /\ last_rcvd_msg'.msg_length = "extended"
    /\ last_rcvd_msg'.cmd_1 = 47
    /\ out_history["read_aldb"] # NoMsg

\* the response is for the address the last read_aldb asked for, or that
\* read_aldb asked for (0, 0)
AnswersReadAldb ==
    LET req_msb == out_history["read_aldb"].usr_3
        req_lsb == out_history["read_aldb"].usr_4
    IN  \/ req_msb = last_rcvd_msg'.usr[3] /\ req_lsb = last_rcvd_msg'.usr[4]
        \/ req_msb = 0 /\ req_lsb = 0

\* C19: the handler of an extended ALDB response installs a record and sets
\* last_sent_msg.device_ack only when (usr_3, usr_4) of the response is the
\* (msb, lsb) of the read_aldb last sent or that request was for (0, 0); it
\* then installs exactly usr_6..usr_13 under the key derived from
\* (usr_3, usr_4) and changes no other record. On a mismatch no record is
\* created or changed and device_ack is as it was.
ExtResponseInstalled ==
    IsExtAldbStep =>
        IF AnswersReadAldb
        THEN LET key == <<last_rcvd_msg'.usr[3],
                          last_rcvd_msg'.usr[4] - (last_rcvd_msg'.usr[4] % 8)>>
             IN  /\ DOMAIN aldb' = DOMAIN aldb \cup {key}
                 /\ aldb'[key] = SubSeq(last_rcvd_msg'.usr, 6, 13)
                 /\ \A k \in DOMAIN aldb \ {key} : aldb'[k] = aldb[k]
                 /\ last_sent_msg'.device_ack
        ELSE /\ aldb' = aldb
             /\ last_sent_msg'.device_ack = last_sent_msg.device_ack
C19_ExtResponseChecked == [][ExtResponseInstalled]_vars

\* C19 witness: read_aldb asked for (0x0F, 0xF8); the response for that
\* record was installed and acked the request, the response for the record
\* at (0x0F, 0xF0) was not
C19_Witness ==
    /\ last_sent_msg.name = "read_aldb"
    /\ last_sent_msg.usr_3 = 15
    /\ last_sent_msg.usr_4 = 248
    /\ last_sent_msg.device_ack
    /\ DOMAIN aldb = {<<15, 248>>}
    /\ aldb[<<15, 248>>] = LinkRecord
    /\ last_rcvd_msg.usr[4] = 240

\* C15: every record in a device's ALDB, whether the i1 peek handler, the
\* extended-response handler or an i1 write put it there, is keyed by
\* (msb, lsb) with lsb & 0x07 = 0; and a byte peeked at offset lsb lands at
\* position lsb % 8 of the record with the aligned key of that offset, so
\* that the eight bytes of one record land in one record.
AlignedKeys == \A key \in DOMAIN aldb : key[2] % 8 = 0
PeekedByteLands ==
    IsPeekAckStep =>
        LET msb == out_history["set_address_msb"].cmd_2
            lsb == last_sent_msg.cmd_2
            key == <<msb, lsb - (lsb % 8)>>
        IN  /\ key \in DOMAIN aldb'
            /\ aldb'[key][(lsb % 8) + 1] = last_rcvd_msg'.cmd_2
            /\ DOMAIN aldb' = DOMAIN aldb \cup {key}
C20_Original == attributes.engine_version \in {NONE, 0, 1, 2}

---------------------------------------------------------------------------
(* SpecLink: the PLM-to-device link sequence started by a nack with         *)
(* cmd_2 = 0xFF, its modem frame and its device frame                       *)

MaxRcvdLink == 3

LinkFrames ==
    {StdNack(25, 255, 2), StdNack(9, 255, 2), StdNack(9, 253, 2),
     StdAck(9, 0, 2)}

InitLink == InitFrom({KnownAttrs(2, 5)}, {<<>>})

NextLink ==
    \/ Rcvd(LinkFrames, MaxRcvdLink)
    \/ Dispatch
    \/ PlmAck
    \/ PlmLinkSuccess
    \/ PlmLinkFailure
    \/ DeviceLinkFailure
    \/ LinkComplete
    \/ Tick({1000}, MaxTime)

SpecLink == InitLink /\ [][NextLink]_vars

\* the frames of a queue that carry the command `name`
Named(queue, name) == SelectSeq(queue, LAMBDA m : m.name = name)

\* the modem acknowledges the all_link_start at the head of its queue
IsModemAckStep ==
    /\ plm_msg_queue # <<>>
    /\ Head(plm_msg_queue).name = "all_link_start"
    /\ plm_msg_queue' = Tail(plm_msg_queue)
    /\ printed' = <<>>

\* the failure callback of the link sequence has run in this step
IsLinkFailureStep ==
    \E i \in 1..Len(printed') :
        printed'[i] = "Error, unable to create plm->device link"

\* nothing labelled 'link plm->device' is left on the modem or the device
LinkTornDown(plm_queue, device_queue, registry) ==
    /\ device_queue["link plm->device"] = <<>>
    /\ \A i \in 1..Len(plm_queue) :
           plm_queue[i].state_machine # "link plm->device"
    /\ \A i \in 1..Len(registry) : registry[i].name # "link plm->device"

\* C21: a step that adds an enter_link_mode frame to the device's
\* 'link plm->device' queue is the modem's acknowledgement of all_link_start
\* (or puts back, for a resend, the frame such a step had enqueued), and after
\* a step in which the link sequence's failure callback ran, whichever frame
\* failed, no frame and no trigger labelled 'link plm->device' is left on the
\* modem or on the device.
EnterLinkModeAfterModemAck ==
    Len(Named(device_msg_queue'["link plm->device"], "enter_link_mode"))
        > Len(Named(device_msg_queue["link plm->device"], "enter_link_mode"))
    => \/ IsModemAckStep
       \/ /\ last_sent_msg.name = "enter_link_mode"
          /\ last_sent_msg.state_machine = "link plm->device"
          /\ Head(device_msg_queue'["link plm->device"]).is_last_sent
FailureTearsDown ==
    IsLinkFailureStep =>
        LinkTornDown(plm_msg_queue', device_msg_queue', triggers')
C21_LinkSequence ==
    [][EnterLinkModeAfterModemAck /\ FailureTearsDown]_vars

\* C21 witness: the device frame failed while a resend of it was waiting on
\* the queue, and the failure callback has run
C21_Witness ==
    /\ printed = <<"Error, unable to create plm->device link">>
    /\ last_sent_msg.name = "enter_link_mode"
    /\ last_sent_msg.state_machine = "link plm->device"
    /\ ~last_sent_msg.plm_ack
    /\ n_rcvd >= 2

\* C22: a direct_ack or direct_nack given to msg_rcvd while last_sent_msg is
\* still None (no frame has been dispatched yet) is dropped as a stale
\* response: the handler ends without an exception.
IsAckOrNackStep ==
    /\ IsRcvdStep
    /\ last_rcvd_msg'.message_type \in {"direct_ack", "direct_nack"}
C22_Original ==
    [][IsAckOrNackStep /\ last_sent_msg = NoMsg => raised' = "none"]_vars

\* C23: a frame the duplicate check drops is not stored: after the step
\* last_rcvd_msg is the frame it was before the duplicate arrived.
DroppedAsDuplicate ==
    /\ IsRcvdStep
    /\ printed' = <<"Skipped duplicate msg">>
C23_Original == [][DroppedAsDuplicate => last_rcvd_msg' = last_rcvd_msg]_vars

\* C24: every inbound direct, direct_ack or direct_nack frame that is not
\* dropped as a duplicate appends exactly one sample, max_hops - hops_left,
\* to hop_array, whichever handler path it takes; a duplicate, a broadcast
\* and a cleanup ack append none (stated while the window of ten samples is
\* not yet full).
CountsHops ==
    /\ last_rcvd_msg'.message_type \in {"direct", "direct_ack", "direct_nack"}
    /\ ~DroppedAsDuplicate
OneSamplePerFrame ==
    IsRcvdStep /\ Len(hop_array) < 9 =>
        hop_array' =
            IF CountsHops
            THEN Append(hop_array,
                        last_rcvd_msg'.max_hops - last_rcvd_msg'.hops_left)
            ELSE hop_array
C24_Original == [][OneSamplePerFrame]_vars

\* a de-linking write is running: a record with in_use false
Delinking == sequence.write_started /\ ~sequence.write_in_use

\* the offset of position 0 (link_flags) of the record being written
FlagsOffset == sequence.write_address[2] - 7

\* the cached record already holds the link_flags of the record to write
FlagsCached ==
    /\ sequence.write_cached # <<>>
    /\ sequence.write_cached[1] = sequence.write_record[1]

\* the device's answer to the frame last sent is accepted in this step
IsAckOf(name) ==
    /\ IsRcvdStep
    /\ ValidAtArrival
    /\ last_sent_msg.name = name
    /\ last_sent_msg'.device_ack

\* _write_complete runs in this step and starts SetALDBDelta
WriteCompletes ==
    /\ sequence'.write_complete = sequence.write_complete + 1
    /\ Enqueues("light_status_request", 0)
    /\ device_msg_queue'["set_aldb_delta"] # device_msg_queue["set_aldb_delta"]

\* C25: a write with in_use false peeks position 0 only and pokes the
\* link_flags byte only, never a position 1..7; when the cached link_flags
\* already equals the target neither a peek nor a poke is enqueued; and the
\* write completes by running SetALDBDelta: on the ack of the poke, or, with
\* the flags cached, on the ack of set_address_msb.
DelinkTouchesFlagsOnly ==
    Delinking =>
        \A byte \in 0..255 :
            /\ Enqueues("peek_one_byte", byte)
                   => byte = FlagsOffset /\ ~FlagsCached
            /\ Enqueues("poke_one_byte", byte)
                   => /\ IsAckOf("peek_one_byte")
                      /\ last_sent_msg.cmd_2 = FlagsOffset
                      /\ byte = sequence.write_record[1]
                      /\ ~FlagsCached
DelinkCompletes ==
    Delinking =>
        /\ IsAckOf("poke_one_byte") => WriteCompletes
        /\ IsAckOf("set_address_msb") /\ FlagsCached => WriteCompletes
        /\ sequence'.write_complete # sequence.write_complete => WriteCompletes
C25_DelinkWritesFlagsOnly ==
    [][DelinkTouchesFlagsOnly /\ DelinkCompletes]_vars

\* C25 witnesses: a de-linking write has completed after one poke, of the
\* link_flags byte; and one has completed with no byte poked
C25_Witness ==
    /\ Delinking
    /\ sequence.write_complete = 1
    /\ \/ /\ ~FlagsCached
          /\ device_mem.poked = {<<sequence.write_address[1], FlagsOffset>>}
       \/ /\ FlagsCached
          /\ device_mem.poked = {}
          /\ sequence.write_record # sequence.write_cached

\* the page the scan is reading: the msb of the set_address_msb last sent
ScanPage == out_history["set_address_msb"].cmd_2

\* the peek just acked read the last byte of the lowest record of the page,
\* and that record is in use: the table goes on below the page
PageFinished ==
    /\ IsAckOf("peek_one_byte")
    /\ sequence.scan_started \/ sequence.driver = "handlers"
    /\ last_sent_msg.cmd_2 = 7
    /\ <<ScanPage, 0>> \in DOMAIN aldb'
    /\ aldb'[<<ScanPage, 0>>][1] >= 128

\* C26: when an i1 scan has read the lowest record of a page (base lsb 0x00)
\* and has not found the terminator, the step enqueues set_address_msb for
\* the page below and no peek; a peek at 0xF8, the top of a page, is enqueued
\* only in the step that accepts the ack of set_address_msb whose cmd_2 is the
\* msb sent, and that step does enqueue it: the scan goes on.
PageChangeSetsMsb == PageFinished => Enqueues("set_address_msb", ScanPage - 1)
TopPeekAwaitsMsbAck ==
    Enqueues("peek_one_byte", 248)
        => /\ IsAckOf("set_address_msb")
           /\ last_rcvd_msg'.cmd_2 = last_sent_msg.cmd_2
TopPeekFollowsMsbAck ==
    IsAckOf("set_address_msb") => Enqueues("peek_one_byte", 248)
---------------------------------------------------------------------------
(* SpecAck: acks to get_engine_version, id_request, set_address_msb and     *)
(* peek_one_byte, matching and not matching the command last sent           *)

MaxRcvdAck == 4
MaxTimeAck == 20

AckFrames ==
    {StdAck(13, 0, 0), StdAck(16, 0, 0), StdAck(6, 0, 0), StdAck(40, 14, 0),
     StdAck(40, 15, 0), StdAck(43, 162, 0)}

InitAck == InitFrom({FreshAttrs, KnownAttrs(0, 5)}, {<<>>})

NextAck ==
    \/ Rcvd(AckFrames, MaxRcvdAck)
    \/ Dispatch
    \/ PlmAck
    \/ Tick({5}, MaxTimeAck)

SpecAck == InitAck /\ [][NextAck]_vars

\* a direct_ack reaches the schema branch of _process_direct_ack: it is no
\* duplicate, it passes the validity gate and the command last sent is not
\* light_status_request
IsSchemaAckStep ==
    /\ IsRcvdStep
    /\ ~DroppedAsDuplicate
    /\ last_rcvd_msg'.message_type = "direct_ack"
    /\ ValidAtArrival
    /\ last_sent_msg.name # "light_status_request"

\* the ack carries the cmd_1 of the command last sent
MatchesLastSent == last_rcvd_msg'.cmd_1 = last_sent_msg.cmd_1

\* the handler the narrowing by DevCat, SubCat, Firmware and the last-sent
\* cmd_2 finds for the ack's cmd_1: <<handler>>, or <<>> for a miss
HandlerFound ==
    narrow(STD_DIRECT_ACK_SCHEMA[last_rcvd_msg'.cmd_1],
           <<attributes.dev_cat, attributes.sub_cat, attributes.firmware,
             last_sent_msg.cmd_2>>)

\* the handler found returns 'not an ack': ack_set_msb for an ack whose
\* cmd_2 is not the msb sent
SaysNotAnAck ==
    /\ HandlerFound = <<"ack_set_msb">>
    /\ last_rcvd_msg'.cmd_2 # last_sent_msg.cmd_2

\* the handler path: cmd_1 is in the table, the narrowing finds a handler
\* and the handler does not return 'not an ack'
HandledAsAck ==
    /\ last_rcvd_msg'.cmd_1 \in DOMAIN STD_DIRECT_ACK_SCHEMA
    /\ HandlerFound # <<>>
    /\ ~SaysNotAnAck

ReceivedFlags(msg) ==
    TypeNibble(msg.message_type, msg.msg_length) * 16
        + msg.hops_left * 4 + msg.max_hops

\* C28: the duplicate check leaves the inbound frame as it arrived: the frame
\* stored as last_rcvd_msg has the raw byte 8 it was received with, low
\* nibble (hops_left, max_hops) included.
C28_Original ==
    [][IsRcvdStep => last_rcvd_msg'.raw_8 = ReceivedFlags(last_rcvd_msg')]_vars

---------------------------------------------------------------------------
(* SpecEntry: the scan of an i1 device is started at an entry of the lowest *)
(* page, whose records down to address 0x0000 are all in use                *)

MaxRcvdEntry == 20
MaxTimeEntry == 100

\* the two lowest records of page 0x00, both in use: the table has no
\* terminator above address 0x0000
BottomTable == [key \in {<<0, 8>>, <<0, 0>>} |-> LinkRecord]

EntryAddresses == {<<0, 8>>, <<0, 0>>}

InitEntry ==
    /\ InitDriven({KnownAttrs(0, 5)}, {<<>>}, {"handlers"})
    /\ device_mem = [NoDevice EXCEPT !.table = BottomTable, !.delta = 5]
    /\ search = NoSearch

\* a caller starts the entry query at (msb, lsb) through the ALDB object
StartEntryQuery(Addresses) ==
    \E address \in Addresses :
        /\ raised = "none"
        /\ ~sequence.scan_started
        /\ Idle
        /\ \E s \in {i1_start_aldb_entry_query(
                          [Cur EXCEPT !.sequence.scan_started = TRUE],
                          address[1], address[2])} :
               QueueOk(s) /\ Commit(s)
        /\ UNCHANGED <<now, n_rcvd, device_mem, search>>

NextEntry ==
    \/ Dispatch
    \/ PlmAck
    \/ DeviceAnswers(MaxRcvdEntry)
    \/ StartEntryQuery(EntryAddresses)
    \/ Tick({5}, MaxTimeEntry)

SpecEntry == InitEntry /\ [][NextEntry]_vars

\* C29: every frame of an i1 scan carries a valid byte address: the lsb of
\* a peek_one_byte waiting on a queue is in 0..255 and the msb of a
\* set_address_msb is in 0..0x0F.
C29_Original ==
    \A l \in Labels :
        \A i \in 1..Len(device_msg_queue[l]) :
            LET message == device_msg_queue[l][i]
            IN  /\ message.name = "peek_one_byte" => message.cmd_2 \in 0..255
                /\ message.name = "set_address_msb" => message.cmd_2 \in 0..15

\* the key of the record being written, and the record the device holds there
WriteKey == _get_aldb_key(sequence.write_address[1], sequence.write_address[2])
DeviceRecord(mem, key) ==
    [position \in 1..8 |-> device_byte(mem, key[1], key[2] + position - 1)]

\* the write of an in-use record completes in this step
InUseWriteCompletes ==
    /\ sequence.write_started
    /\ sequence.write_in_use
    /\ sequence'.write_complete = sequence.write_complete + 1

\* the cached record and the device's record agree at the positions given
CacheMatchesDevice(Positions) ==
    /\ WriteKey \in DOMAIN aldb'
    /\ \A position \in Positions :
           aldb'[WriteKey][position]
               = DeviceRecord(device_mem', WriteKey)[position]

\* C30: when the write of an in-use record completes, the cached record that
\* _write_complete adopts equals the record the device holds at that address
\* in all eight positions, whatever record was cached before.
C30_Original == [][InUseWriteCompletes => CacheMatchesDevice(1..8)]_vars

---------------------------------------------------------------------------
(* SpecRetry: an i2cs device, or one whose engine is unknown, answers every *)
(* frame it is sent with a direct_nack of the command                       *)

MaxRcvdRetry == 4
MaxTimeRetry == 5000

\* the reasons the device gives: checksum bad, an unlisted value, and sender
\* not in the database
RetryReasons == {253, 0}
DeviceNackReasons == RetryReasons \cup {255}

InitRetry == InitFrom({FreshAttrs, KnownAttrs(2, 5)}, {<<>>})

\* the device nacks the frame last sent, once the modem has echoed it
DeviceNacks(Reasons, max_rcvd) ==
    \E reason \in Reasons :
        /\ DeviceOwesAnswer(max_rcvd)
        /\ \E s \in {msg_rcvd(Cur, StdNack(last_sent_msg.cmd_1, reason, 0))} :
               QueueOk(s) /\ Commit(s)
        /\ n_rcvd' = n_rcvd + 1
        /\ now' = now
        /\ UNCHANGED <<device_mem, search>>

NextRetry ==
    \/ Dispatch
    \/ PlmAck
    \/ DeviceNacks(DeviceNackReasons, MaxRcvdRetry)
    \/ PlmLinkSuccess
    \/ PlmLinkFailure
    \/ DeviceLinkFailure
    \/ Tick({1000}, MaxTimeRetry)

SpecRetry == InitRetry /\ [][NextRetry]_vars

\* time passes, read from the present: what is left of the send wait and of
\* the dedup entries shrinks and the clock's reading stays
Elapse(Steps) ==
    \E d \in Steps :
        /\ \/ now < wait_to_send
           \/ \E k \in DOMAIN recent_inc_msgs : recent_inc_msgs[k] >= now
        /\ wait_to_send' =
              IF wait_to_send > now THEN Max(wait_to_send - d, now)
              ELSE wait_to_send
        /\ recent_inc_msgs' =
              [k \in DOMAIN recent_inc_msgs |->
                  IF recent_inc_msgs[k] >= now
                  THEN Max(recent_inc_msgs[k] - d, now - 1)
                  ELSE recent_inc_msgs[k]]
        /\ UNCHANGED <<attributes, hop_array, last_sent_msg, last_rcvd_msg,
                       device_msg_queue, state_machine, aldb, plm_msg_queue,
                       plm_pending_ack, out_history, printed, raised, now,
                       n_rcvd, triggers, sequence, device_mem, search>>

\* the device nacks the frame last sent, once the modem has echoed it, and
\* goes on doing so: the frames received are not counted
DeviceNacksAlways(Reasons) ==
    \E reason \in Reasons :
        /\ DeviceOwesAnswer(n_rcvd + 1)
        /\ \E s \in {msg_rcvd(Cur, StdNack(last_sent_msg.cmd_1, reason, 0))} :
               QueueOk(s) /\ Commit(s)
        /\ UNCHANGED <<now, n_rcvd, device_mem, search>>

NextRetryLoop ==
    \/ Dispatch
    \/ PlmAck
    \/ DeviceNacksAlways(DeviceNackReasons)
    \/ PlmLinkSuccess
    \/ PlmLinkFailure
    \/ DeviceLinkFailure
    \/ Elapse({1000})

SpecRetryLoop == InitRetry /\ [][NextRetryLoop]_vars

\* every frame queued is sent and echoed, the device answers every frame
\* sent, the modem acknowledges all_link_start, and time passes; the modem
\* need not fail
FairSpecRetryLoop ==
    /\ SpecRetryLoop
    /\ WF_vars(Dispatch)
    /\ WF_vars(PlmAck)
    /\ WF_vars(Elapse({1000}))
    /\ ([]<>~DeviceOwesAnswer(n_rcvd + 1)
          \/ []<><<DeviceNacksAlways(DeviceNackReasons)>>_vars)
    /\ ([]<>(plm_msg_queue = <<>>) \/ []<><<PlmLinkSuccess>>_vars)

\* the frame received last is a nack of the command last sent that asks for
\* a retry, or a nack of enter_link_mode with sender not in the database
NackedForRetry ==
    /\ last_sent_msg # NoMsg
    /\ last_rcvd_msg.message_type = "direct_nack"
    /\ last_rcvd_msg.cmd_1 = last_sent_msg.cmd_1
    /\ \/ last_rcvd_msg.cmd_2 \in RetryReasons
       \/ /\ last_rcvd_msg.cmd_2 = 255
          /\ last_sent_msg.name = "enter_link_mode"

\* a failure callback has run: that of the link sequence, of the scan or of
\* the record write
FailureInvoked ==
    \/ \E i \in 1..Len(printed) :
           printed[i] = "Error, unable to create plm->device link"
    \/ sequence.scan_failure > 0
    \/ sequence.write_failure > 0

\* C31: retry driven by nacks is bounded: once the device has nacked a frame
\* asking for a retry, or has nacked enter_link_mode with 0xFF, the frame is
\* in the end abandoned and the failure callback of its sequence is invoked.
C31_Original == NackedForRetry ~> FailureInvoked

\* a nack asking for a retry is handled for the frame last sent: the frame
\* goes back on its queue and no failure callback runs, however many times
\* the frame has been sent before; a nack 0xFF of enter_link_mode starts the
\* link sequence again
RetryNackStep ==
    /\ MatchingNackStep
    /\ last_rcvd_msg'.cmd_2 \in RetryReasons
LinkNackStep ==
    /\ MatchingNackStep
    /\ last_rcvd_msg'.cmd_2 = 255
    /\ last_sent_msg.name = "enter_link_mode"
NackNeverAbandons ==
    /\ RetryNackStep => Resent /\ ~IsLinkFailureStep /\ sequence' = sequence
    /\ LinkNackStep => LinkStarted /\ ~IsLinkFailureStep /\ sequence' = sequence
EveryNackRetries == [][NackNeverAbandons]_vars

====
